---- MODULE Spec2Model ----
(***************************************************************************)
(* tsplus-gen: the classification pass of the Parser (Parser/index.ts) and *)
(* the policy step and fold of the Serializer (the last version of the     *)
(* Serializer in Fs/index.ts), as state machines.                          *)
(*                                                                         *)
(* Strings are TLA+ strings; startsWith, slice, split and the regular      *)
(* expression replacements are computed on their characters.  An optional  *)
(* value (undefined, Maybe.none) is the empty tuple << >>, a present one   *)
(* the one-element tuple << v >>.                                          *)
(***************************************************************************)
EXTENDS Integers, Sequences, FiniteSets, Bags, TLC

VARIABLES
    pc,               \* position of the run
    moduleConfig,     \* Config.moduleConfig, as a list of <<prefix, config>> entries
    namespaceAliases, \* Config.namespaceAliases, as a list of <<key, value>> entries
    exported,         \* exportedWithDeclarations: the exported declarations
    callables,        \* the pool `let callables`
    constants,        \* const constants
    staticByName,     \* const staticByName
    getters,          \* const getters
    pipeables,        \* const pipeables
    fluents,          \* const fluents
    statics,          \* const statics
    types,            \* const types
    namespaces,       \* Serializer.make: namespaces
    additionalExtensions, \* Serializer.make: additionalExtensions (the tuples)
    mergeWith,        \* Serializer.make: mergeWith (a list of catalogues)
    streams,          \* what each merged stream has still to deliver
    acc,              \* the accumulator of Stream.runFold
    delivered,        \* every element the merged stream took: its stream, the
                      \* Parser output and what makeDefinitions made of it
    env,              \* what the run finds outside: the files, the tsconfig, argv
    loading,          \* parseMergeWith: how far each mergeWith file has got
    root,             \* the catalogue after the sort of main
    effects,          \* the output steps done so far: print, mkdir, write
    result,           \* how the run ended: "running", "success" or "failure"
    frames,           \* getFinalReturnType: the signature of each call on the stack
    returned          \* getFinalReturnType: the type the innermost call returned

parserVars == << moduleConfig, namespaceAliases, exported, callables, constants,
                 staticByName, getters, pipeables, fluents, statics, types >>
serializerVars == << namespaces, additionalExtensions, mergeWith, streams, acc, delivered >>
mainVars == << env, loading, root, effects, result >>
unwindVars == << frames, returned >>
vars == << pc, parserVars, serializerVars, mainVars, unwindVars >>

(***************************************************************************)
(* Bounds of the model.                                                    *)
(***************************************************************************)
MaxDecls == 2
MaxItems == 2
MaxNamespaces == 2
MaxCatalogues == 2
MaxPriority == 1
MaxOverrides == 3
MaxStack == 4
MaxExports == 3

(***************************************************************************)
(* Strings and optional values.                                            *)
(***************************************************************************)
None == << >>
Some(v) == << v >>
IsSome(m) == m /= << >>
OrElse(m, d) == IF m = << >> THEN d ELSE m[1]

\* a value bound to a name: `const v = ...` followed by the code that uses v
With(v, F(_)) == F(v)

startsWith(s, p) == Len(p) <= Len(s) /\ SubSeq(s, 1, Len(p)) = p
endsWith(s, p) == Len(p) <= Len(s) /\ SubSeq(s, Len(s) - Len(p) + 1, Len(s)) = p
slice(s, n) == SubSeq(s, n + 1, Len(s))

\* String.prototype.indexOf, 1-based; 0 when `sub` does not occur in `s`.
indexOf(s, sub) ==
    LET hits == { i \in 1..(Len(s) - Len(sub) + 1) : SubSeq(s, i, i + Len(sub) - 1) = sub }
    IN  IF hits = {} THEN 0 ELSE CHOOSE i \in hits : \A j \in hits : i <= j

lastIndexOf(s, sub) ==
    LET hits == { i \in 1..(Len(s) - Len(sub) + 1) : SubSeq(s, i, i + Len(sub) - 1) = sub }
    IN  IF hits = {} THEN 0 ELSE CHOOSE i \in hits : \A j \in hits : i >= j

\* String.prototype.split(sep): the list of the pieces between the separators.
RECURSIVE split(_, _)
split(s, sep) ==
    LET i == indexOf(s, sep)
    IN  IF i = 0 THEN << s >>
        ELSE << SubSeq(s, 1, i - 1) >> \o split(SubSeq(s, i + Len(sep), Len(s)), sep)

\* s.replaceAll(c, "")
RECURSIVE removeAll(_, _)
removeAll(s, c) ==
    LET i == indexOf(s, c)
    IN  IF i = 0 THEN s
        ELSE SubSeq(s, 1, i - 1) \o removeAll(SubSeq(s, i + Len(c), Len(s)), c)

\* Array.prototype.sort((a, b) => b.length - a.length) on a list of <<key, value>>
\* entries: a stable sort by descending key length.
RECURSIVE insertByLength(_, _)
insertByLength(sorted, e) ==
    IF sorted = << >> THEN << e >>
    ELSE IF Len(Head(sorted)[1]) >= Len(e[1])
         THEN << Head(sorted) >> \o insertByLength(Tail(sorted), e)
         ELSE << e >> \o sorted

RECURSIVE sortByLengthDesc(_)
sortByLengthDesc(entries) ==
    IF entries = << >> THEN << >>
    ELSE insertByLength(sortByLengthDesc(SubSeq(entries, 1, Len(entries) - 1)),
                        entries[Len(entries)])

\* candidates[0] of the entries whose key is a prefix of `s`, longest key first.
longestPrefixEntry(entries, s) ==
    LET candidates == SelectSeq(entries, LAMBDA e : startsWith(s, e[1]))
        sorted == sortByLengthDesc(candidates)
    IN  IF sorted = << >> THEN None ELSE Some(sorted[1][2])

Range(seq) == { seq[i] : i \in DOMAIN seq }

RECURSIVE flatten(_)
flatten(seqs) ==
    IF seqs = << >> THEN << >> ELSE Head(seqs) \o flatten(Tail(seqs))

mapSeq(seq, f(_)) == [ i \in DOMAIN seq |-> f(seq[i]) ]

(***************************************************************************)
(* The program snapshot: what the type checker answers about each type.    *)
(*   sym         type.aliasSymbol ?? type.symbol exists                    *)
(*   name        symbol.name                                               *)
(*   typeDecl    a declaration of the symbol is a class, a type alias or   *)
(*               an interface                                              *)
(*   typeParam   type.isTypeParameter()                                    *)
(*   file        the file name of the symbol's first declaration, if any   *)
(*   exportedInFile  the file of a declaration exports the symbol's name   *)
(*   sigs        type.getCallSignatures(): parameters' types, return type  *)
(*   boolean     type.flags & TypeFlags.Boolean                            *)
(***************************************************************************)
baseDir == "/w/src"
packageName == "p"

BoxFile == "/w/src/Box.ts"
OptFile == "/w/src/Opt/index.ts"
EffFile == "/w/node_modules/@q/core/Eff.d.ts"
BarFile == "/w/src/Foo/Bar.ts"
DefinitionFile == "/w/src/Foo/definition/Bar.ts"
IndexFile == "/w/src/Baz/index/definition/x.ts"
NestedSrcFile == "/w/src/src/X.ts"
DistFile == "/w/node_modules/@q/core/_src/io/Eff.d.ts"
LibFile == "/w/node_modules/typescript/lib/lib.es5.d.ts"
VendoredFile == "/w/node_modules/a/node_modules/b/c.d.ts"

NoSymbol == [ sym |-> FALSE, name |-> "", typeDecl |-> FALSE, typeParam |-> FALSE,
              file |-> None, exportedInFile |-> FALSE, sigs |-> << >>,
              boolean |-> FALSE ]
Named(n, f, exp, ss) ==
    [ sym |-> TRUE, name |-> n, typeDecl |-> TRUE, typeParam |-> FALSE,
      file |-> Some(f), exportedInFile |-> exp, sigs |-> ss, boolean |-> FALSE ]
Fn(n, ss) ==
    [ sym |-> TRUE, name |-> n, typeDecl |-> FALSE, typeParam |-> FALSE,
      file |-> Some(BoxFile), exportedInFile |-> FALSE, sigs |-> ss,
      boolean |-> FALSE ]
Sig(ps, r) == [ params |-> ps, ret |-> r ]

TypeTable ==
    [ number  |-> NoSymbol,
      boolean |-> [ NoSymbol EXCEPT !.boolean = TRUE ],
      A       |-> [ Named("A", BoxFile, FALSE, << >>) EXCEPT !.typeDecl = FALSE,
                                                             !.typeParam = TRUE ],
      Box     |-> Named("Box", BoxFile, TRUE, << >>),
      BoxOps  |-> Named("BoxOps", BoxFile, TRUE, << >>),
      Hidden  |-> Named("Hidden", BoxFile, FALSE, << >>),
      Opt     |-> Named("Opt", OptFile, TRUE, << >>),
      Eff     |-> Named("Eff", EffFile, TRUE, << >>),
      Brand   |-> Named("Brand", BoxFile, TRUE, << Sig(<< "number" >>, "Box") >>),
      \* anonymous function types
      fnNumNum    |-> Fn("__type", << Sig(<< "number" >>, "number") >>),
      fnNumBox    |-> Fn("__function", << Sig(<< "number" >>, "Box") >>),
      fnBoxBox    |-> Fn("__function", << Sig(<< "Box" >>, "Box") >>),
      fnBoxNum    |-> Fn("__function", << Sig(<< "Box" >>, "number") >>),
      fnBoxBool   |-> Fn("__function", << Sig(<< "Box" >>, "boolean") >>),
      fnBoxFn     |-> Fn("__function", << Sig(<< "Box" >>, "fnNumBox") >>),
      fnOptOpt    |-> Fn("__function", << Sig(<< "Opt" >>, "Opt") >>),
      fnNumOrBox  |-> Fn("__type", << Sig(<< "number" >>, "number"),
                                      Sig(<< "Box" >>, "Box") >>),
      \* the types of the exported functions and constants
      tGetter     |-> Fn("__function", << Sig(<< "Box" >>, "number") >>),
      tIsBox      |-> Fn("__function", << Sig(<< "Box" >>, "boolean") >>),
      tFluent     |-> Fn("testFluent", << Sig(<< "Box", "fnNumNum" >>, "Box") >>),
      tMap        |-> Fn("__function", << Sig(<< "fnNumNum" >>, "fnBoxBox") >>),
      tSize       |-> Fn("__function", << Sig(<< "fnNumNum" >>, "fnBoxNum") >>),
      tHas        |-> Fn("__function", << Sig(<< "number" >>, "fnBoxBool") >>),
      tCurry3     |-> Fn("__function", << Sig(<< "number" >>, "fnBoxFn") >>),
      tOf         |-> Fn("of", << Sig(<< "number" >>, "Box") >>),
      tSum        |-> Fn("sum", << Sig(<< "number", "number" >>, "number") >>),
      tBoth       |-> Fn("__function", << Sig(<< "Box" >>, "fnBoxBox") >>),
      tZip        |-> Fn("__function", << Sig(<< "Box", "Box" >>, "Box") >>),
      tHidden     |-> Fn("__function", << Sig(<< "Hidden" >>, "number") >>),
      tOptMap     |-> Fn("__function", << Sig(<< "fnNumNum" >>, "fnOptOpt") >>),
      tIdent      |-> Fn("__function", << Sig(<< "A" >>, "A") >>),
      tOverload   |-> Fn("__function", << Sig(<< "number" >>, "fnNumOrBox") >>),
      tBrand      |-> Fn("__function", << Sig(<< "Box" >>, "Brand") >>),
      tOps        |-> Fn("__function", << Sig(<< "number" >>, "BoxOps") >>),
      \* named types by the file that declares them, and a getter on each
      nBar |-> Named("Bar", BarFile, TRUE, << >>),
      nBarOps |-> Named("BarOps", BarFile, TRUE, << >>),
      nFooBar |-> Named("FooBar", BarFile, TRUE, << >>),
      nBaz |-> Named("Baz", BarFile, TRUE, << >>),
      nFoo |-> Named("Foo", DefinitionFile, TRUE, << >>),
      nIdx |-> Named("Baz", IndexFile, TRUE, << >>),
      nX |-> Named("X", NestedSrcFile, TRUE, << >>),
      nDist |-> Named("Eff", DistFile, TRUE, << >>),
      nArray |-> Named("Array", LibFile, TRUE, << >>),
      nVendored |-> Named("c", VendoredFile, TRUE, << >>),
      nOptSome |-> Named("OptSome", OptFile, TRUE, << >>),
      gBar |-> Fn("__function", << Sig(<< "nBar" >>, "number") >>),
      gBarOps |-> Fn("__function", << Sig(<< "nBarOps" >>, "number") >>),
      gFooBar |-> Fn("__function", << Sig(<< "nFooBar" >>, "number") >>),
      gBaz |-> Fn("__function", << Sig(<< "nBaz" >>, "number") >>),
      gFoo |-> Fn("__function", << Sig(<< "nFoo" >>, "number") >>),
      gIdx |-> Fn("__function", << Sig(<< "nIdx" >>, "number") >>),
      gX |-> Fn("__function", << Sig(<< "nX" >>, "number") >>),
      gDist |-> Fn("__function", << Sig(<< "nDist" >>, "number") >>),
      gArray |-> Fn("__function", << Sig(<< "nArray" >>, "number") >>),
      gVendored |-> Fn("__function", << Sig(<< "nVendored" >>, "number") >>),
      gOptSome |-> Fn("__function", << Sig(<< "nOptSome" >>, "number") >>),
      \* a type whose symbol has no declaration in a source file, and
      \* functions on it and on a type parameter
      Synth |-> [ Named("Synth", BoxFile, TRUE, << >>) EXCEPT !.file = None ],
      tGetSynth |-> Fn("__function", << Sig(<< "Synth" >>, "number") >>),
      tMapAny |-> Fn("__function", << Sig(<< "fnNumNum" >>, "tIdent") >>),
      \* functions that return themselves, or each other
      tLoop |-> Fn("loop", << Sig(<< "Box" >>, "tLoop") >>),
      tPing |-> Fn("ping", << Sig(<< >>, "tPong") >>),
      tPong |-> Fn("pong", << Sig(<< >>, "tPing") >>),
      tSome       |-> Fn("__function", << Sig(<< "number" >>, "Opt") >>) ]

TypeIds == DOMAIN TypeTable

callSignatures(t) == TypeTable[t].sigs

(***************************************************************************)
(* Namespace and target-name resolution.                                   *)
(***************************************************************************)
\* Path.relative(baseDir, file) for a file below baseDir
relative(dir, file) == slice(file, Len(dir) + 1)

getExternalModulePath(file) ==
    slice(file, lastIndexOf(file, "/node_modules/") + Len("/node_modules/") - 1)

getInternalModulePath(file) == packageName \o "/" \o relative(baseDir, file)

stripSuffix(s, suffix) ==
    IF endsWith(s, suffix) THEN SubSeq(s, 1, Len(s) - Len(suffix)) ELSE s

getModuleFromSourceFile(file) ==
    stripSuffix(stripSuffix(IF indexOf(file, "/node_modules/") > 0
                            THEN getExternalModulePath(file)
                            ELSE getInternalModulePath(file),
                            ".d.ts"),
                ".ts")

maybeRenameNamespace(aliases, namespace) ==
    With(SelectSeq(aliases, LAMBDA e : e[1] = namespace),
         LAMBDA hit : IF hit = << >> THEN namespace ELSE hit[1][2])

\* s with the `n` characters at index `i` replaced by `by`; s itself when i = 0
replaceAt(s, i, n, by) ==
    IF i = 0 THEN s ELSE SubSeq(s, 1, i - 1) \o by \o slice(s, i + n - 1)

\* .replace(/\/_?(src|dist)\//, "/"): the leftmost match only
replaceSrcDist(s) ==
    With({ << indexOf(s, p), Len(p) >> : p \in { "/src/", "/dist/", "/_src/", "/_dist/" } },
         LAMBDA all :
           With({ h \in all : h[1] > 0 },
                LAMBDA hits :
                  IF hits = {} THEN s
                  ELSE With(CHOOSE x \in hits : \A y \in hits : x[1] <= y[1],
                            LAMBDA h : replaceAt(s, h[1], h[2], "/"))))

\* .replace(/\/definition\/.*/, "")
stripDefinition(path) ==
    With(indexOf(path, "/definition/"),
         LAMBDA i : IF i > 0 THEN SubSeq(path, 1, i - 1) ELSE path)

\* .replace(/^@/, "")
stripScope(path) == IF startsWith(path, "@") THEN slice(path, 1) ELSE path

\* variant: the alias table is not applied
namespaceFromModuleNoAlias(aliases, path) ==
    replaceSrcDist(stripSuffix(stripScope(stripDefinition(path)), "/index"))

namespaceFromModule(aliases, path) ==
    maybeRenameNamespace(aliases,
        replaceSrcDist(stripSuffix(stripScope(stripDefinition(path)), "/index")))

getNamespaceFromSourceFile(aliases, file) ==
    namespaceFromModule(aliases, getModuleFromSourceFile(file))

\* Path.basename
RECURSIVE basename(_)
basename(s) ==
    IF s /= "" /\ endsWith(s, "/") THEN basename(SubSeq(s, 1, Len(s) - 1))
    ELSE slice(s, lastIndexOf(s, "/"))

\* variant: the test for a name that starts with the base name comes first
getTargetStringPrefixFirst(aliases, file, name) ==
    With(getNamespaceFromSourceFile(aliases, file), LAMBDA namespace :
    With(basename(namespace), LAMBDA baseName :
    With(removeAll(namespace, "/"), LAMBDA namespaceWithoutSlashes :
        IF startsWith(namespace, "typescript/") THEN name
        ELSE IF startsWith(name, baseName)
             THEN maybeRenameNamespace(aliases, namespace) \o "." \o slice(name, Len(baseName))
        ELSE IF name = baseName THEN namespace
        ELSE IF endsWith(namespaceWithoutSlashes, name) THEN namespace
        ELSE maybeRenameNamespace(aliases, namespace) \o "." \o name)))

getTargetString(aliases, file, name) ==
    With(getNamespaceFromSourceFile(aliases, file), LAMBDA namespace :
    With(basename(namespace), LAMBDA baseName :
    With(removeAll(namespace, "/"), LAMBDA namespaceWithoutSlashes :
        IF startsWith(namespace, "typescript/") THEN name
        ELSE IF name = baseName THEN namespace
        ELSE IF startsWith(name, baseName)
             THEN maybeRenameNamespace(aliases, namespace) \o "." \o slice(name, Len(baseName))
        ELSE IF endsWith(namespaceWithoutSlashes, name) THEN namespace
        ELSE maybeRenameNamespace(aliases, namespace) \o "." \o name)))

(***************************************************************************)
(* The Parser's tests on types and signatures.                             *)
(***************************************************************************)
nonFunctionReturnType(t) ==
    With(TypeTable[t], LAMBDA ty :
        IF ~ty.sym \/ ty.typeDecl THEN TRUE
        ELSE IF ty.sigs = << >> THEN TRUE
        ELSE FALSE)

RECURSIVE getFinalReturnType(_)
getFinalReturnType(signature) ==
    IF nonFunctionReturnType(signature.ret) THEN signature.ret
    ELSE getFinalReturnType(callSignatures(signature.ret)[1])

getTypeInformation(t) ==
    With(TypeTable[t], LAMBDA ty :
        IF ty.sym /\ ~ty.typeParam /\ IsSome(ty.file)
        THEN Some([ type |-> t, name |-> ty.name,
                    typeName |-> getTargetString(namespaceAliases, ty.file[1], ty.name) ])
        ELSE None)

typeNameOf(info) == IF IsSome(info) THEN Some(info[1].typeName) ELSE None

getFinalReturnTypeName(signature) ==
    typeNameOf(getTypeInformation(getFinalReturnType(signature)))

getFirstParamType(signature) ==
    IF signature.params = << >> THEN None
    ELSE IF ~nonFunctionReturnType(signature.params[1]) THEN None
    ELSE getTypeInformation(signature.params[1])

findModuleConfig(module) == longestPrefixEntry(moduleConfig, module)

hasStaticPrefix(module, name) ==
    With(findModuleConfig(module), LAMBDA cfg :
        /\ IsSome(cfg)
        /\ \E i \in DOMAIN cfg[1].staticPrefixes : startsWith(name, cfg[1].staticPrefixes[i]))

isExportedInFluentNamespace(module, t, typeName) ==
    With(TypeTable[t], LAMBDA ty :
    With(findModuleConfig(module), LAMBDA cfg :
        IF ~ty.sym THEN FALSE
        ELSE IF ~(/\ IsSome(cfg)
                  /\ \E i \in DOMAIN cfg[1].fluentNamespaces :
                        startsWith(typeName, cfg[1].fluentNamespaces[i]))
        THEN FALSE
        ELSE IF typeName = ty.name THEN TRUE
        ELSE ty.exportedInFile))

\* Maybe.filter((a) => isExportedInFluentNamespace(module, a.type, a.typeName))
filterExportedInFluentNamespace(module, info) ==
    IF IsSome(info) /\ isExportedInFluentNamespace(module, info[1].type, info[1].typeName)
    THEN info ELSE None

\* variant: the first parameter is not tested for an eligible namespace
fluentTypeInformationAnyNamespace(module, signature) ==
    IF ~(Len(signature.params) >= 1) THEN None
    ELSE With(getFirstParamType(signature), LAMBDA firstParamType :
         With(getTypeInformation(getFinalReturnType(signature)), LAMBDA returnType :
             IF ~IsSome(firstParamType) THEN None
             ELSE IF IsSome(returnType)
                     /\ returnType[1].typeName /= firstParamType[1].typeName
             THEN None
             ELSE Some([ firstParamType |-> firstParamType[1], returnType |-> returnType ])))

fluentTypeInformation(module, signature) ==
    IF ~(Len(signature.params) >= 1) THEN None
    ELSE With(filterExportedInFluentNamespace(module, getFirstParamType(signature)),
              LAMBDA firstParamType :
         With(getTypeInformation(getFinalReturnType(signature)), LAMBDA returnType :
             IF ~IsSome(firstParamType) THEN None
             ELSE IF IsSome(returnType)
                     /\ returnType[1].typeName /= firstParamType[1].typeName
             THEN None
             ELSE Some([ firstParamType |-> firstParamType[1], returnType |-> returnType ])))

\* variant: the test of the signature's own return type is left out
getterTypeInformationAnyReturn(module, signature) ==
    IF Len(signature.params) /= 1 THEN None
    ELSE With(filterExportedInFluentNamespace(module, getFirstParamType(signature)),
              LAMBDA firstParamType :
             IF ~IsSome(firstParamType) THEN None
             ELSE Some([ firstParamType |-> firstParamType[1] ]))

getterTypeInformation(module, signature) ==
    IF Len(signature.params) /= 1 THEN None
    ELSE IF ~nonFunctionReturnType(signature.ret) THEN None
    ELSE With(filterExportedInFluentNamespace(module, getFirstParamType(signature)),
              LAMBDA firstParamType :
             IF ~IsSome(firstParamType) THEN None
             ELSE Some([ firstParamType |-> firstParamType[1] ]))

isPipeableSignature(module, signature) == IsSome(getterTypeInformation(module, signature))

pipeableSignature(module, t) ==
    With(SelectSeq(callSignatures(t), LAMBDA sg : isPipeableSignature(module, sg)),
         LAMBDA found : IF found = << >> THEN None ELSE Some(found[1]))

(***************************************************************************)
(* The exported declarations and the classification pass.                  *)
(***************************************************************************)
\* a declaration node of a symbol: its syntax kind and its source file
Declaration(k, f) == [ kind |-> k, file |-> f ]

\* an exported symbol of Box.ts with one declaration
Export(n, k, t) == [ name |-> n, type |-> t, declarations |-> << Declaration(k, BoxFile) >> ]

\* the exports a program may hold: functions and constants of Box.ts by
\* shape, and its classes, interfaces and type aliases
ExportUniverse ==
    { Export("testGetter", "const", "tGetter"),
      Export("isBox", "const", "tIsBox"),
      Export("testFluent", "function", "tFluent"),
      Export("map", "const", "tMap"),
      Export("size", "const", "tSize"),
      Export("has", "const", "tHas"),
      Export("curry3", "const", "tCurry3"),
      Export("of", "function", "tOf"),
      Export("ofBox", "const", "tGetter"),
      Export("ofMap", "const", "tMap"),
      Export("ofZip", "const", "tZip"),
      Export("sum", "function", "tSum"),
      Export("both", "const", "tBoth"),
      Export("hidden", "const", "tHidden"),
      Export("optMap", "const", "tOptMap"),
      Export("ident", "const", "tIdent"),
      Export("overload", "const", "tOverload"),
      Export("brand", "const", "tBrand"),
      Export("ops", "const", "tOps"),
      Export("some", "const", "tSome"),
      Export("testConstant", "const", "number"),
      Export("empty", "const", "Box"),
      Export("Box", "class", "Box"),
      Export("BoxOps", "interface", "BoxOps") }

ModuleConfigs ==
    { << >>,
      << << "p", [ staticPrefixes |-> << >>, fluentNamespaces |-> << "p/" >> ] >> >>,
      << << "p", [ staticPrefixes |-> << "of" >>, fluentNamespaces |-> << "p/", "Opt" >> ] >> >>,
      << << "p", [ staticPrefixes |-> << >>, fluentNamespaces |-> << >> ] >>,
         << "p/Box", [ staticPrefixes |-> << "test", "of" >>,
                       fluentNamespaces |-> << "p/Box" >> ] >> >> }

AliasTables == { << >>, << << "p/Opt", "Opt" >> >> }

key(a) == << a.module, a.name, a.kind >>

\* exportedWithDeclarations' .map: the module and the typeName of a declaration
withModule(e, node) ==
    [ name |-> e.name, kind |-> node.kind, file |-> node.file, type |-> e.type,
      module |-> getModuleFromSourceFile(node.file),
      typeName |-> getTargetString(namespaceAliases, node.file, e.name) ]

\* the syntax kinds in the order of their numbers: VariableDeclaration,
\* FunctionDeclaration, ClassDeclaration, InterfaceDeclaration, TypeAliasDeclaration
SyntaxKinds == << "const", "function", "class", "interface", "type" >>

\* the first declaration of each kind, as Object.values lists a record with
\* integer keys: by ascending kind
uniqueNodesForSymbol(declarations) ==
    flatten(mapSeq(SyntaxKinds, LAMBDA k :
        With(SelectSeq(declarations, LAMBDA n : n.kind = k),
             LAMBDA sameKind : IF sameKind = << >> THEN << >> ELSE << sameKind[1] >>)))

\* `${module}.${symbol.name}.${node.kind}`
entryKey(a) == a.module \o "." \o a.name \o "." \o a.kind

\* Object.values(Object.fromEntries(entries)): a key stays where it came first
\* and holds the value that came last
objectValues(entries) ==
    mapSeq(SelectSeq([ i \in DOMAIN entries |-> i ],
                     LAMBDA i : \A j \in 1..(i - 1) :
                                    entryKey(entries[j]) /= entryKey(entries[i])),
           LAMBDA i : entries[CHOOSE j \in DOMAIN entries :
                                  /\ entryKey(entries[j]) = entryKey(entries[i])
                                  /\ \A k \in (j + 1)..Len(entries) :
                                         entryKey(entries[k]) /= entryKey(entries[i])])

exportedWithDeclarations ==
    objectValues(flatten(mapSeq(exported, LAMBDA e :
        mapSeq(uniqueNodesForSymbol(e.declarations), LAMBDA node : withModule(e, node)))))

filterExports(all, kinds) == SelectSeq(all, LAMBDA a : a.kind \in kinds)

withSignature(a) ==
    With(callSignatures(a.type)[1], LAMBDA sg :
        [ name |-> a.name, kind |-> a.kind, file |-> a.file, type |-> a.type,
          module |-> a.module, typeName |-> a.typeName,
          callSignature |-> sg, returnType |-> sg.ret ])

withTypeName(a, typeName, outputTypeName) ==
    [ name |-> a.name, kind |-> a.kind, file |-> a.file, type |-> a.type,
      module |-> a.module, typeName |-> typeName, outputTypeName |-> outputTypeName ]

\* let callables = [...variables, ...functions].filter(...).map(...).map(...)
initialCallables(all) ==
    mapSeq(SelectSeq(filterExports(all, {"const"}) \o filterExports(all, {"function"}),
                     LAMBDA a : ~nonFunctionReturnType(a.type)),
           withSignature)

\* variant: a constant whose type does not resolve keeps its declaration's typeName
constantOfDeclaration(a) ==
    With(getTypeInformation(a.type), LAMBDA self :
        Some(withTypeName(a, OrElse(typeNameOf(self), a.typeName), None)))

constant(a) ==
    With(getTypeInformation(a.type), LAMBDA self :
        IF IsSome(self) THEN Some(withTypeName(a, self[1].typeName, None)) ELSE None)

somes(maybes) == mapSeq(SelectSeq(maybes, IsSome), LAMBDA m : m[1])

constantsOf(all) ==
    SelectSeq(somes(mapSeq(SelectSeq(filterExports(all, {"const"}),
                                     LAMBDA a : nonFunctionReturnType(a.type)),
                           constant)),
              LAMBDA a : isExportedInFluentNamespace(a.module, a.type, a.typeName))

typesOf(all) ==
    mapSeq(filterExports(all, {"class"}) \o filterExports(all, {"interface"})
               \o filterExports(all, {"type"}),
           LAMBDA a : withTypeName(a, a.typeName, None))

\* variant: the matched declarations are not taken out of the pool
partitionKeepingPool(marked) ==
    [ results |-> mapSeq(SelectSeq(marked, LAMBDA m : IsSome(m[2])), LAMBDA m : m[2][1]),
      newCallables |-> mapSeq(marked, LAMBDA m : m[1]) ]

\* variant: the pool that remains is built by prepending
partitionPrepending(marked) ==
    [ results |-> mapSeq(SelectSeq(marked, LAMBDA m : IsSome(m[2])), LAMBDA m : m[2][1]),
      newCallables |->
          With(mapSeq(SelectSeq(marked, LAMBDA m : ~IsSome(m[2])), LAMBDA m : m[1]),
               LAMBDA rest : [ i \in DOMAIN rest |-> rest[Len(rest) + 1 - i] ]) ]

\* the reduce of extractCallables over << a, f(a) >>: the matched results and
\* the pool that remains
partition(marked) ==
    [ results |-> mapSeq(SelectSeq(marked, LAMBDA m : IsSome(m[2])), LAMBDA m : m[2][1]),
      newCallables |-> mapSeq(SelectSeq(marked, LAMBDA m : ~IsSome(m[2])), LAMBDA m : m[1]) ]

extractCallables(pool, f(_)) == partition(mapSeq(pool, LAMBDA a : << a, f(a) >>))

\* variant: the name is compared with the prefix instead of tested for it
staticByNameTestExact(a) ==
    With(findModuleConfig(a.module), LAMBDA cfg :
        IF IsSome(cfg) /\ \E i \in DOMAIN cfg[1].staticPrefixes : a.name = cfg[1].staticPrefixes[i]
        THEN Some(a) ELSE None)

staticByNameTest(a) == IF hasStaticPrefix(a.module, a.name) THEN Some(a) ELSE None

\* variant: getters that return a boolean are kept
gettersTestKeepingBoolean(a) ==
    With(getterTypeInformation(a.module, a.callSignature), LAMBDA self :
        IF ~IsSome(self) THEN None
        ELSE Some(withTypeName(a, self[1].firstParamType.typeName,
                               getFinalReturnTypeName(a.callSignature))))

gettersTest(a) ==
    With(getterTypeInformation(a.module, a.callSignature), LAMBDA self :
        IF ~IsSome(self) THEN None
        ELSE IF TypeTable[a.callSignature.ret].boolean THEN None
        ELSE Some(withTypeName(a, self[1].firstParamType.typeName,
                               getFinalReturnTypeName(a.callSignature))))

\* a.returnCallSignature.getParameters()[0], getSymbolType, getTypeInformation
firstParamInformation(returnCallSignature) ==
    IF IsSome(returnCallSignature)
    THEN getTypeInformation(returnCallSignature[1].params[1])
    ELSE None

\* variant: the subject is taken from the export's own first parameter
pipeablesTestOwnParameter(a) ==
    With(filterExportedInFluentNamespace(a.module,
             IF IsSome(pipeableSignature(a.module, a.returnType))
             THEN getTypeInformation(a.callSignature.params[1]) ELSE None),
         LAMBDA self :
            IF ~IsSome(self) THEN None
            ELSE Some(withTypeName(a, self[1].typeName,
                                   getFinalReturnTypeName(a.callSignature))))

pipeablesTest(a) ==
    With(filterExportedInFluentNamespace(a.module,
             firstParamInformation(pipeableSignature(a.module, a.returnType))),
         LAMBDA self :
            IF ~IsSome(self) THEN None
            ELSE Some(withTypeName(a, self[1].typeName,
                                   getFinalReturnTypeName(a.callSignature))))

fluentsTest(a) ==
    With(fluentTypeInformation(a.module, a.callSignature), LAMBDA info :
        IF ~IsSome(info) THEN None
        ELSE Some(withTypeName(a, info[1].firstParamType.typeName,
                               getFinalReturnTypeName(a.callSignature))))

sameTopLevelNamespace(module, info) ==
    IF /\ IsSome(info)
       /\ startsWith(namespaceFromModule(namespaceAliases, module),
                     split(info[1].typeName, ".")[1])
    THEN info ELSE None

\* variant: the return type is not tested for the declaration's own namespace
staticCallableAnyNamespace(a) ==
    With(filterExportedInFluentNamespace(a.module,
             getTypeInformation(getFinalReturnType(a.callSignature))),
         LAMBDA self :
            IF IsSome(self) THEN withTypeName(a, self[1].typeName, None)
            ELSE withTypeName(a, namespaceFromModule(namespaceAliases, a.module), None))

staticCallable(a) ==
    With(sameTopLevelNamespace(a.module,
             filterExportedInFluentNamespace(a.module,
                 getTypeInformation(getFinalReturnType(a.callSignature)))),
         LAMBDA self :
            IF IsSome(self) THEN withTypeName(a, self[1].typeName, None)
            ELSE withTypeName(a, namespaceFromModule(namespaceAliases, a.module), None))

(***************************************************************************)
(* The Serializer: namespace selection, the policy step, the fold.         *)
(***************************************************************************)
Kinds == { "fluent", "getter", "pipeable", "static", "type" }

\* KindConfig after the schema's defaults
KindConfig(inc, comp, compSuffix, st, stSuffix, usesOutput, prio) ==
    [ include |-> inc, includeCompanion |-> comp, companionSuffix |-> compSuffix,
      includeStatic |-> st, staticSuffix |-> stSuffix,
      staticUsesOutputType |-> usesOutput, priority |-> prio ]

\* the KindConfig of makeDefinitionTuple for a namespace without one
defaultKindConfig == KindConfig(TRUE, FALSE, None, FALSE, None, FALSE, None)

\* a Namespace whose five categories share one optional KindConfig
Namespace(n, prio, ext, modulePrio, excl, kindConfig) ==
    [ name |-> n, priority |-> prio, moduleFileExtension |-> ext,
      modulePriority |-> modulePrio, exclude |-> excl,
      kinds |-> [ k \in Kinds |-> kindConfig ] ]

\* Number.prototype.toString of an integer
digit(d) == SubSeq("0123456789", d + 1, d + 1)

RECURSIVE natToString(_)
natToString(n) == IF n < 10 THEN digit(n) ELSE natToString(n \div 10) \o digit(n % 10)

toString(n) == IF n < 0 THEN "-" \o natToString(0 - n) ELSE natToString(n)

\* m?.toString()
maybeToString(m) == IF IsSome(m) THEN Some(toString(m[1])) ELSE None

\* a ?? b
orMaybe(a, b) == IF IsSome(a) THEN a ELSE b

\* s || "" , and the truth value of an optional string
orEmpty(m) == IF IsSome(m) THEN m[1] ELSE ""
truthy(m) == IsSome(m) /\ m[1] /= ""

\* variant: the first matching config in list order, without the sort
findNamespaceFirstMatch(list, typeName) ==
    With(SelectSeq(list, LAMBDA ns : startsWith(typeName, ns.name)),
         LAMBDA candidates : IF candidates = << >> THEN None ELSE Some(candidates[1]))

\* variant: a typeName that no config matches is filed under the first config
findNamespaceOrFirst(list, typeName) ==
    With(longestPrefixEntry(mapSeq(list, LAMBDA ns : << ns.name, ns >>), typeName),
         LAMBDA found :
            IF IsSome(found) \/ list = << >> THEN found ELSE Some(list[1]))

findNamespace(list, typeName) ==
    longestPrefixEntry(mapSeq(list, LAMBDA ns : << ns.name, ns >>), typeName)

findModulePriority(ns, module) ==
    longestPrefixEntry(OrElse(ns.modulePriority, << >>), module)

extensionFromTuple(tuple) ==
    With(split(tuple.target, "#"), LAMBDA parts :
        [ targetTypeName |-> parts[1],
          definitionName |-> parts[2],
          extension |-> [ kind |-> tuple.kind,
                          typeName |-> OrElse(tuple.targetTypeName, parts[1]),
                          name |-> Some(tuple.name),
                          priority |-> None ] ])

\* variant: the record is read by the definition's name alone
additionalByDefinitionName(tuples, typeName, name) ==
    mapSeq(SelectSeq(mapSeq(tuples, extensionFromTuple),
                     LAMBDA e : e.definitionName = name),
           LAMBDA e : e.extension)

\* additionalExtensionsRecord(tuples)[typeName]?.[name] ?? []
additional(tuples, typeName, name) ==
    mapSeq(SelectSeq(mapSeq(tuples, extensionFromTuple),
                     LAMBDA e : e.targetTypeName = typeName /\ e.definitionName = name),
           LAMBDA e : e.extension)

primaryExtension(kind, a, config, priority) ==
    [ kind |-> kind,
      typeName |-> a.typeName \o (IF kind = "static" /\ truthy(config.staticSuffix)
                                  THEN config.staticSuffix[1] ELSE ""),
      name |-> IF kind /= "type" THEN Some(a.name) ELSE None,
      priority |-> priority ]

\* variant: the promoted static extension without the suffix
staticExtensionNoSuffix(a, config) ==
    [ kind |-> "static",
      typeName |-> IF config.staticUsesOutputType
                   THEN OrElse(a.outputTypeName, a.typeName)
                   ELSE a.typeName,
      name |-> Some(a.name),
      priority |-> None ]

\* variant: the promoted static extension always on the subject's typeName
staticExtensionOnSubject(a, config) ==
    [ kind |-> "static",
      typeName |-> a.typeName \o orEmpty(config.staticSuffix),
      name |-> Some(a.name),
      priority |-> None ]

staticExtension(a, config) ==
    [ kind |-> "static",
      typeName |-> (IF config.staticUsesOutputType
                    THEN OrElse(a.outputTypeName, a.typeName)
                    ELSE a.typeName) \o orEmpty(config.staticSuffix),
      name |-> Some(a.name),
      priority |-> None ]

companionExtension(a, config) ==
    [ kind |-> "companion",
      typeName |-> a.typeName \o OrElse(config.companionSuffix, ""),
      name |-> None,
      priority |-> None ]

\* variant: || in place of ??, so that the number 0 falls through
orTruthy(a, b) == IF IsSome(a) /\ a[1] /= 0 THEN a ELSE b

effectivePriorityFalsy(config, ns, module) ==
    maybeToString(orTruthy(config.priority,
                           orTruthy(ns.priority, findModulePriority(ns, module))))

effectivePriority(config, ns, module) ==
    orMaybe(maybeToString(config.priority),
            orMaybe(maybeToString(ns.priority),
                    maybeToString(findModulePriority(ns, module))))

makeDefinitionTuple(kind, a, ns, allowStatic) ==
    With(OrElse(ns.kinds[kind], defaultKindConfig), LAMBDA config :
        << a.module \o orEmpty(ns.moduleFileExtension),
           [ definitionName |-> a.name,
             definitionKind |-> a.kind,
             extensions |->
                 << primaryExtension(kind, a, config,
                                     effectivePriority(config, ns, a.module)) >>
                 \o (IF allowStatic /\ config.includeStatic
                     THEN << staticExtension(a, config) >> ELSE << >>)
                 \o (IF config.includeCompanion
                     THEN << companionExtension(a, config) >> ELSE << >>)
                 \o additional(additionalExtensions, a.typeName, a.name) ] >>)

\* variant: a category without a config of its own is left out
includedWhenConfigured(ns, kind) ==
    IF IsSome(ns.kinds[kind]) THEN ns.kinds[kind][1].include ELSE FALSE

included(ns, kind) == IF IsSome(ns.kinds[kind]) THEN ns.kinds[kind][1].include ELSE TRUE

\* variant: the exclude list read as typeName#name keys
excludedByTypeName(ns, a) ==
    IF IsSome(ns.exclude)
    THEN \E i \in DOMAIN ns.exclude[1] : ns.exclude[1][i] = a.typeName \o "#" \o a.name
    ELSE FALSE

excluded(ns, a) ==
    IF IsSome(ns.exclude)
    THEN \E i \in DOMAIN ns.exclude[1] : ns.exclude[1][i] = a.module \o "#" \o a.name
    ELSE FALSE

\* what makeDefinitions lets through for one element of its stream
makeDefinitions(kind, a, includeStatic) ==
    With(findNamespace(namespaces, a.typeName), LAMBDA ns :
        IF ~IsSome(ns) THEN None
        ELSE IF ~included(ns[1], kind) THEN None
        ELSE IF excluded(ns[1], a) THEN None
        ELSE Some(makeDefinitionTuple(kind, a, ns[1], includeStatic)))

\* a catalogue is a list of << module, definitions >> entries
catalogueTuples(catalogue) ==
    flatten(mapSeq(catalogue,
                   LAMBDA e : mapSeq(e[2], LAMBDA d : << e[1], d >>)))

mergeWithFlat(catalogues) == flatten(mapSeq(catalogues, catalogueTuples))

\* variant: the module's list is overwritten instead of extended
foldReplacing(a, tuple) ==
    [ m \in DOMAIN a \cup { tuple[1] } |->
        IF m = tuple[1] THEN << tuple[2] >> ELSE a[m] ]

\* the step function of Stream.runFold
fold(a, tuple) ==
    [ m \in DOMAIN a \cup { tuple[1] } |->
        IF m = tuple[1]
        THEN (IF m \in DOMAIN a THEN a[m] ELSE << >>) \o << tuple[2] >>
        ELSE a[m] ]

(***************************************************************************)
(* The classification pass, one step per statement of makeParser.          *)
(***************************************************************************)
Programs ==
    { s \in UNION { [ 1..n -> ExportUniverse ] : n \in 1..MaxDecls } :
        \A i, j \in DOMAIN s : i /= j => s[i] /= s[j] }

\* main has not started: the run is looked at from inside the Parser or the Serializer
MainIdle ==
    /\ env = << >>
    /\ loading = << >>
    /\ root = << >>
    /\ effects = << >>
    /\ result = "running"

\* no call of getFinalReturnType is looked at step by step
UnwindIdle ==
    /\ frames = << >>
    /\ returned = << >>

NoStreams == [ k \in {} |-> << >> ]
NoCatalogue == [ m \in {} |-> << >> ]

SerializerIdle ==
    /\ namespaces = << >>
    /\ additionalExtensions = << >>
    /\ mergeWith = << >>
    /\ streams = NoStreams
    /\ acc = NoCatalogue
    /\ delivered = << >>

Init ==
    /\ pc = "filter"
    /\ moduleConfig \in ModuleConfigs
    /\ namespaceAliases \in AliasTables
    /\ exported \in Programs
    /\ callables = << >>
    /\ constants = << >>
    /\ staticByName = << >>
    /\ getters = << >>
    /\ pipeables = << >>
    /\ fluents = << >>
    /\ statics = << >>
    /\ types = << >>
    /\ SerializerIdle
    /\ MainIdle
    /\ UnwindIdle

FilterExports ==
    /\ pc = "filter"
    /\ callables' = initialCallables(exportedWithDeclarations)
    /\ constants' = constantsOf(exportedWithDeclarations)
    /\ pc' = "staticByName"
    /\ UNCHANGED << moduleConfig, namespaceAliases, exported, staticByName, getters,
                    pipeables, fluents, statics, types, serializerVars, mainVars,
                    unwindVars >>

ExtractStaticByName ==
    /\ pc = "staticByName"
    /\ LET r == extractCallables(callables, staticByNameTest)
       IN  staticByName' = r.results /\ callables' = r.newCallables
    /\ pc' = "getters"
    /\ UNCHANGED << moduleConfig, namespaceAliases, exported, constants, getters,
                    pipeables, fluents, statics, types, serializerVars, mainVars,
                    unwindVars >>

ExtractGetters ==
    /\ pc = "getters"
    /\ LET r == extractCallables(callables, gettersTest)
       IN  getters' = r.results /\ callables' = r.newCallables
    /\ pc' = "pipeables"
    /\ UNCHANGED << moduleConfig, namespaceAliases, exported, constants, staticByName,
                    pipeables, fluents, statics, types, serializerVars, mainVars,
                    unwindVars >>

\* variant: the pipeable pass takes nothing out of the pool
ExtractPipeablesNothing ==
    /\ pc = "pipeables"
    /\ pipeables' = << >>
    /\ pc' = "fluents"
    /\ UNCHANGED << moduleConfig, namespaceAliases, exported, callables, constants,
                    staticByName, getters, fluents, statics, types, serializerVars,
                    mainVars, unwindVars >>

ExtractPipeables ==
    /\ pc = "pipeables"
    /\ LET r == extractCallables(callables, pipeablesTest)
       IN  pipeables' = r.results /\ callables' = r.newCallables
    /\ pc' = "fluents"
    /\ UNCHANGED << moduleConfig, namespaceAliases, exported, constants, staticByName,
                    getters, fluents, statics, types, serializerVars, mainVars,
                    unwindVars >>

ExtractFluents ==
    /\ pc = "fluents"
    /\ LET r == extractCallables(callables, fluentsTest)
       IN  fluents' = r.results /\ callables' = r.newCallables
    /\ pc' = "statics"
    /\ UNCHANGED << moduleConfig, namespaceAliases, exported, constants, staticByName,
                    getters, pipeables, statics, types, serializerVars, mainVars,
                    unwindVars >>

StaticFallback ==
    /\ pc = "statics"
    /\ statics' = mapSeq(staticByName \o callables, staticCallable) \o constants
    /\ types' = typesOf(exportedWithDeclarations)
    /\ pc' = "parsed"
    /\ UNCHANGED << moduleConfig, namespaceAliases, exported, callables, constants,
                    staticByName, getters, pipeables, fluents, serializerVars, mainVars,
                    unwindVars >>

Next ==
    \/ FilterExports
    \/ ExtractStaticByName
    \/ ExtractGetters
    \/ ExtractPipeables
    \/ ExtractFluents
    \/ StaticFallback

Spec == Init /\ [][Next]_vars

\* --- exports: symbols that several files export, and symbols with several
\* declarations (overloads, a constant beside an interface, an interface that
\* another file augments) ---
Symbol(n, t, declarations) == [ name |-> n, type |-> t, declarations |-> declarations ]

ExportedSymbols ==
    { Export("testGetter", "const", "tGetter"),
      Symbol("of", "tOf", << Declaration("function", BoxFile),
                             Declaration("function", BoxFile) >>),
      Symbol("Box", "Box", << Declaration("interface", BoxFile),
                              Declaration("const", BoxFile) >>),
      Symbol("BoxOps", "BoxOps", << Declaration("interface", BoxFile),
                                    Declaration("interface", OptFile) >>),
      Symbol("Opt", "Opt", << Declaration("class", OptFile),
                              Declaration("interface", OptFile),
                              Declaration("interface", OptFile) >>) }

\* the exports of the source files, one after the other: a symbol that two
\* files export comes twice
InitExports ==
    /\ pc = "filter"
    /\ moduleConfig = << << "p", [ staticPrefixes |-> << "of" >>,
                                  fluentNamespaces |-> << "p/" >> ] >> >>
    /\ namespaceAliases = << >>
    /\ exported \in UNION { [ 1..n -> ExportedSymbols ] : n \in 1..MaxExports }
    /\ callables = << >>
    /\ constants = << >>
    /\ staticByName = << >>
    /\ getters = << >>
    /\ pipeables = << >>
    /\ fluents = << >>
    /\ statics = << >>
    /\ types = << >>
    /\ SerializerIdle
    /\ MainIdle
    /\ UnwindIdle

SpecExports == InitExports /\ [][Next]_vars

\* --- names: one function and one getter, over the files a declaration or a
\* type can come from and the alias tables ---
ExportIn(n, k, t, f) == [ name |-> n, type |-> t, declarations |-> << Declaration(k, f) >> ]

InternalFiles == { BoxFile, OptFile, BarFile, DefinitionFile, IndexFile, NestedSrcFile }

SubjectGetters ==
    { "gBar", "gBarOps", "gFooBar", "gBaz", "gFoo", "gIdx", "gX", "gDist", "gArray",
      "gVendored", "gOptSome", "tGetter" }

NameAliasTables ==
    { << >>,
      << << "p/Opt", "Opt" >> >>,
      << << "p/Foo/Bar", "Bar" >>, << "Bar", "B" >> >>,
      << << "p/X", "q/core/io/Eff" >>, << "b/c", "lib/c" >> >> }

EveryNamespace == << << "p", [ staticPrefixes |-> << >>, fluentNamespaces |-> << "" >> ] >> >>

InitNames ==
    /\ pc = "filter"
    /\ moduleConfig = EveryNamespace
    /\ namespaceAliases \in NameAliasTables
    /\ exported \in { << ExportIn("sum", "function", "tSum", f),
                          ExportIn("get", "const", g, f) >> :
                       f \in InternalFiles, g \in SubjectGetters }
    /\ callables = << >>
    /\ constants = << >>
    /\ staticByName = << >>
    /\ getters = << >>
    /\ pipeables = << >>
    /\ fluents = << >>
    /\ statics = << >>
    /\ types = << >>
    /\ SerializerIdle
    /\ MainIdle
    /\ UnwindIdle

SpecNames == InitNames /\ [][Next]_vars

(***************************************************************************)
(* The Serializer run: what the Parser hands over, the configurations,     *)
(* and one step per element delivered by the merged stream.                *)
(***************************************************************************)
StreamNames == Kinds \cup { "mergeWith" }

\* a Parser output as the Serializer reads it
Output(n, k, m, t, o) ==
    [ name |-> n, kind |-> k, module |-> m, typeName |-> t, outputTypeName |-> o ]

\* all the sequences without repetition of at most n elements of S
Arrangements(S, n) ==
    { s \in UNION { [ 1..k -> S ] : k \in 0..n } :
        \A i, j \in DOMAIN s : i /= j => s[i] /= s[j] }

\* the streams of the Parser holding the given << stream, output >> items
streamsOf(items) ==
    [ k \in Kinds |->
        mapSeq(SelectSeq(items, LAMBDA it : it[1] = k), LAMBDA it : it[2]) ]

startStreams(items, catalogues) ==
    [ k \in StreamNames |->
        IF k = "mergeWith" THEN mergeWithFlat(catalogues) ELSE streamsOf(items)[k] ]

ParserIdle ==
    /\ moduleConfig = << >>
    /\ namespaceAliases = << >>
    /\ exported = << >>
    /\ callables = << >>
    /\ constants = << >>
    /\ staticByName = << >>
    /\ getters = << >>
    /\ pipeables = << >>
    /\ fluents = << >>
    /\ statics = << >>
    /\ types = << >>

SerializerStart(nss, tuples, items, catalogues) ==
    /\ pc = "fold"
    /\ ParserIdle
    /\ namespaces = nss
    /\ additionalExtensions = tuples
    /\ mergeWith = catalogues
    /\ streams = startStreams(items, catalogues)
    /\ acc = NoCatalogue
    /\ delivered = << >>
    /\ MainIdle
    /\ UnwindIdle

\* --- namespace selection: overlapping names in every order ---
SelectNames == { "Foo", "Foo.Bar", "Foo.Bar.baz", "Fo", "Bar" }

SelectNamespaces ==
    { Namespace(n, None, Some("@" \o n), None, None, None) : n \in SelectNames }

SelectItems ==
    { << "static", Output("baz", "const", "p/Foo/Bar", "Foo.Bar.baz", None) >>,
      << "getter", Output("bar", "function", "p/Foo", "Foo.Bar", Some("Foo")) >>,
      << "type", Output("Foo", "interface", "p/Foo", "Foo", None) >>,
      << "fluent", Output("qux", "function", "p/Qux", "Qux", None) >> }

InitSelect ==
    \E nss \in Arrangements(SelectNamespaces, MaxNamespaces), it \in SelectItems :
        SerializerStart(nss, << >>, << it >>, << >>)

\* --- policy: one namespace "Box" with every combination of its settings ---
Priorities == { None } \cup { Some(n) : n \in 0..MaxPriority }

ModulePriorities ==
    { None,
      Some(<< << "p", MaxPriority + 5 >>, << "p/Box", MaxPriority + 10 >> >>),
      Some(<< << "p/B", 0 >>, << "q", 7 >> >>) }

Excludes ==
    { None,
      Some(<< "p/Box#map", "p/Box#zip", "p/Box#of", "p/Box#Box" >>),
      Some(<< "q/Box#map", "p/Box#ma" >>) }

Companions == { << FALSE, None >>, << TRUE, None >>, << TRUE, Some(".Aspects") >> }

KindConfigs ==
    { None } \cup
    { Some(KindConfig(inc, comp[1], comp[2], st, stSuffix, usesOutput, prio)) :
        inc \in BOOLEAN, comp \in Companions, st \in BOOLEAN,
        stSuffix \in { None, Some(".Ops") }, usesOutput \in BOOLEAN,
        prio \in Priorities }

PolicyNamespaces ==
    { Namespace("Box", prio, None, modulePrio, excl, kindConfig) :
        prio \in Priorities, modulePrio \in ModulePriorities,
        excl \in Excludes, kindConfig \in KindConfigs }

PolicyItems ==
    { << "pipeable", Output("map", "const", "p/Box", "Box", Some("Box")) >>,
      << "fluent", Output("zip", "function", "p/Box", "Box", Some("Opt")) >>,
      << "getter", Output("size", "const", "q/Opt", "Box.Opt", None) >>,
      << "static", Output("of", "function", "p/Box", "Box", None) >>,
      << "type", Output("Box", "class", "p/Box", "Box", None) >> }

PolicyOverrides ==
    { << >>,
      << [ target |-> "Box#map", kind |-> "operator", name |-> "+",
           targetTypeName |-> None ] >> }

InitPolicy ==
    \E ns \in PolicyNamespaces, it \in PolicyItems, tuples \in PolicyOverrides :
        SerializerStart(<< ns >>, tuples, << it >>, << >>)

\* --- overrides: every list of override tuples for a plain and a full config ---
ExtensionTuple(target, kind, name, targetTypeName) ==
    [ target |-> target, kind |-> kind, name |-> name, targetTypeName |-> targetTypeName ]

OverrideTuples ==
    { ExtensionTuple("Box#map", "operator", "+", None),
      ExtensionTuple("Box#map", "static", "mapOps", Some("Box.Ops")),
      ExtensionTuple("Box.Opt#size", "fluent", "length", None),
      ExtensionTuple("Box#size", "getter", "size", None),
      ExtensionTuple("Box.Ops#of", "static", "make", None) }

OverrideNamespaces ==
    { Namespace("Box", None, None, None, None, kindConfig) :
        kindConfig \in { None,
                         Some(KindConfig(TRUE, TRUE, Some(".Aspects"), TRUE, Some(".Ops"),
                                         TRUE, None)) } }

InitOverrides ==
    \E ns \in OverrideNamespaces, it \in PolicyItems,
       tuples \in Arrangements(OverrideTuples, MaxOverrides) :
        SerializerStart(<< ns >>, tuples, << it >>, << >>)

\* --- merging: local streams next to externally supplied catalogues ---
Extension(k, t, n) == [ kind |-> k, typeName |-> t, name |-> n, priority |-> None ]

Definition(n, k, exts) ==
    [ definitionName |-> n, definitionKind |-> k, extensions |-> exts ]

CatalogueA ==
    << << "p/Box",
          << Definition("map", "const", << Extension("operator", "Box", Some(">>")) >>) >> >> >>

CatalogueB ==
    << << "p/Box",
          << Definition("of", "function", << Extension("static", "Box.Ops", Some("of")) >>) >> >>,
       << "q/Ext",
          << Definition("ext", "function", << Extension("fluent", "Ext", Some("ext")) >>) >> >> >>

CatalogueC ==
    << << "q/Ext",
          << Definition("ext", "function", << Extension("getter", "Ext", Some("ext")) >>) >> >> >>

MergeCatalogues == { CatalogueA, CatalogueB, CatalogueC }

MergeItems ==
    { << "pipeable", Output("map", "const", "p/Box", "Box", Some("Box")) >>,
      << "static", Output("of", "function", "p/Box", "Box", None) >>,
      << "type", Output("Box", "class", "p/Box", "Box", None) >> }

InitMerge ==
    \E items \in Arrangements(MergeItems, MaxItems),
       catalogues \in Arrangements(MergeCatalogues, MaxCatalogues) :
        SerializerStart(<< Namespace("Box", None, None, None, None, None) >>,
                        << >>, items, catalogues)

\* --- no namespace configured: local streams next to mergeWith catalogues ---
InitUnconfigured ==
    \E items \in Arrangements(MergeItems, MaxItems),
       catalogues \in Arrangements(MergeCatalogues, MaxCatalogues) :
        SerializerStart(<< >>, << >>, items, catalogues)

InitSerializer ==
    InitSelect \/ InitPolicy \/ InitOverrides \/ InitMerge \/ InitUnconfigured

\* one element of a Parser stream goes through makeDefinitions into the fold
Deliver(kind, includeStatic) ==
    /\ pc = "fold"
    /\ streams[kind] /= << >>
    /\ streams' = [ streams EXCEPT ![kind] = Tail(@) ]
    /\ acc' = With(makeDefinitions(kind, Head(streams[kind]), includeStatic),
                   LAMBDA t : IF IsSome(t) THEN fold(acc, t[1]) ELSE acc)
    /\ delivered' = Append(delivered,
                           [ source |-> kind,
                             input |-> Some(Head(streams[kind])),
                             output |-> makeDefinitions(kind, Head(streams[kind]),
                                                        includeStatic) ])
    /\ UNCHANGED << pc, parserVars, namespaces, additionalExtensions, mergeWith,
                    mainVars, unwindVars >>

DeliverFluent == Deliver("fluent", TRUE)
DeliverGetter == Deliver("getter", TRUE)
DeliverPipeable == Deliver("pipeable", TRUE)
\* variant: the static stream is allowed the promoted static extension
DeliverStaticPromoting == Deliver("static", TRUE)
DeliverStatic == Deliver("static", FALSE)
DeliverType == Deliver("type", FALSE)

\* one tuple of mergeWithFlat goes into the fold as it is
DeliverMergeWith ==
    /\ pc = "fold"
    /\ streams["mergeWith"] /= << >>
    /\ streams' = [ streams EXCEPT !["mergeWith"] = Tail(@) ]
    /\ acc' = fold(acc, Head(streams["mergeWith"]))
    /\ delivered' = Append(delivered,
                           [ source |-> "mergeWith",
                             input |-> None,
                             output |-> Some(Head(streams["mergeWith"])) ])
    /\ UNCHANGED << pc, parserVars, namespaces, additionalExtensions, mergeWith,
                    mainVars, unwindVars >>

\* every stream has ended: runFold returns the accumulator
FoldDone ==
    /\ pc = "fold"
    /\ \A k \in StreamNames : streams[k] = << >>
    /\ pc' = "folded"
    /\ UNCHANGED << parserVars, serializerVars, mainVars, unwindVars >>

NextSerializer ==
    \/ DeliverFluent
    \/ DeliverGetter
    \/ DeliverPipeable
    \/ DeliverStatic
    \/ DeliverType
    \/ DeliverMergeWith
    \/ FoldDone

SpecSerializer == InitSerializer /\ [][NextSerializer]_vars

(***************************************************************************)
(* The run of main: configuration, mergeWith files, program, fold, sort,   *)
(* output.                                                                 *)
(***************************************************************************)
Lower == "abcdefghijklmnopqrstuvwxyz"
Upper == "ABCDEFGHIJKLMNOPQRSTUVWXYZ"
Punctuation == "_-.@/#0123456789"

\* the weight localeCompare gives a character before it looks at its case
primaryWeight(c) ==
    IF indexOf(Upper, c) > 0 THEN Len(Punctuation) + indexOf(Upper, c)
    ELSE indexOf(Punctuation \o Lower, c)

RECURSIVE comparePrimary(_, _)
comparePrimary(a, b) ==
    IF a = "" THEN (IF b = "" THEN 0 ELSE 0 - 1)
    ELSE IF b = "" THEN 1
    ELSE IF primaryWeight(SubSeq(a, 1, 1)) < primaryWeight(SubSeq(b, 1, 1)) THEN 0 - 1
    ELSE IF primaryWeight(SubSeq(a, 1, 1)) > primaryWeight(SubSeq(b, 1, 1)) THEN 1
    ELSE comparePrimary(slice(a, 1), slice(b, 1))

\* equal letters: the first difference of case decides, lower case first
RECURSIVE compareCase(_, _)
compareCase(a, b) ==
    IF a = "" \/ b = "" THEN 0
    ELSE IF SubSeq(a, 1, 1) = SubSeq(b, 1, 1) THEN compareCase(slice(a, 1), slice(b, 1))
    ELSE IF indexOf(Upper, SubSeq(b, 1, 1)) > 0 THEN 0 - 1
    ELSE 1

\* String.prototype.localeCompare on the characters above
localeCompare(a, b) ==
    With(comparePrimary(a, b), LAMBDA c : IF c /= 0 THEN c ELSE compareCase(a, b))

\* name[0].toUpperCase() === name[0]
isUpperCase(name) == indexOf(Lower, SubSeq(name, 1, 1)) = 0

isType(d) == d.definitionKind = "type" \/ d.definitionKind = "interface"

\* the comparator of the sort inside a module
compareDefinitions(a, b) ==
    IF isType(a) /= isType(b) THEN (IF isType(a) THEN 0 - 1 ELSE 1)
    ELSE IF isUpperCase(a.definitionName) /= isUpperCase(b.definitionName)
         THEN (IF isUpperCase(a.definitionName) THEN 0 - 1 ELSE 1)
    ELSE localeCompare(a.definitionName, b.definitionName)

\* Array.prototype.sort with the comparator: a stable sort
RECURSIVE insertDefinition(_, _)
insertDefinition(sorted, d) ==
    IF sorted = << >> THEN << d >>
    ELSE IF compareDefinitions(Head(sorted), d) <= 0
         THEN << Head(sorted) >> \o insertDefinition(Tail(sorted), d)
         ELSE << d >> \o sorted

RECURSIVE sortDefinitions(_)
sortDefinitions(seq) ==
    IF seq = << >> THEN << >>
    ELSE insertDefinition(sortDefinitions(SubSeq(seq, 1, Len(seq) - 1)), seq[Len(seq)])

\* Object.keys(root).sort(localeCompare): the keys are distinct strings
sortedKeys(keys) ==
    [ k \in 1..Cardinality(keys) |->
        CHOOSE m \in keys : Cardinality({ x \in keys : localeCompare(x, m) < 0 }) = k - 1 ]

\* the object built by the reduce, as its entries in insertion order
sortRoot(a) ==
    mapSeq(sortedKeys(DOMAIN a), LAMBDA m : << m, sortDefinitions(a[m]) >>)

\* Path.dirname
dirname(path) ==
    IF lastIndexOf(path, "/") = 0 THEN "."
    ELSE SubSeq(path, 1, lastIndexOf(path, "/") - 1)

\* --- what the run can find outside ---
FileStates == { "unreadable", "notJson", "invalid", "ok" }

MergeFile(st, catalogue) == [ status |-> st, content |-> catalogue ]

MergeFiles ==
    { MergeFile(st, << >>) : st \in FileStates \ { "ok" } }
    \cup { MergeFile("ok", CatalogueA), MergeFile("ok", CatalogueB) }

ProgramStates == { "ok", "noConfigFile", "unreadableConfigFile" }

FsStates == { "ok", "mkdirFails", "writeFails" }

MainItems ==
    { << >>,
      << << "pipeable", Output("map", "const", "p/Box", "Box", Some("Box")) >> >>,
      << << "static", Output("of", "function", "p/Box", "Box", None) >>,
         << "type", Output("Box", "class", "a/Box", "Box", None) >> >> }

Environments ==
    [ config : FileStates,
      mergeFiles : Arrangements(MergeFiles, MaxCatalogues),
      tsconfig : ProgramStates,
      items : MainItems,
      outputFile : { None, Some("out/annotations.json") },
      fs : FsStates ]

InitMain ==
    /\ pc = "readConfig"
    /\ ParserIdle
    /\ SerializerIdle
    /\ env \in { e \in Environments : e.outputFile = None => e.fs = "ok" }
    /\ loading = << >>
    /\ root = << >>
    /\ effects = << >>
    /\ result = "running"
    /\ UnwindIdle

\* Effect.fail: the failure reaches the caller of main, nothing after it runs
Fail ==
    /\ pc' = "failed"
    /\ result' = "failure"
    /\ UNCHANGED << parserVars, serializerVars, env, loading, root, effects,
                    unwindVars >>

\* fromFile: Fs.readFile(path)
ReadConfig ==
    /\ pc = "readConfig"
    /\ IF env.config = "unreadable" THEN Fail
       ELSE /\ pc' = "parseConfig"
            /\ UNCHANGED << parserVars, serializerVars, mainVars, unwindVars >>

\* fromFile: parseBuffer
ParseConfig ==
    /\ pc = "parseConfig"
    /\ IF env.config = "notJson" THEN Fail
       ELSE /\ pc' = "decodeConfig"
            /\ UNCHANGED << parserVars, serializerVars, mainVars, unwindVars >>

\* fromFile: decode, then parseMergeWith starts one fiber per path
DecodeConfig ==
    /\ pc = "decodeConfig"
    /\ IF env.config = "invalid" THEN Fail
       ELSE /\ pc' = "mergeWith"
            /\ loading' = [ i \in DOMAIN env.mergeFiles |-> "read" ]
            /\ UNCHANGED << parserVars, serializerVars, env, root, effects, result,
                    unwindVars >>

\* one step of parseExternalDefinitions for one of the files
StepMergeFile(i, stage, failing, next) ==
    /\ pc = "mergeWith"
    /\ loading[i] = stage
    /\ IF env.mergeFiles[i].status = failing THEN Fail
       ELSE /\ loading' = [ loading EXCEPT ![i] = next ]
            /\ UNCHANGED << pc, parserVars, serializerVars, env, root, effects, result,
                    unwindVars >>

ReadMergeFile == \E i \in DOMAIN loading : StepMergeFile(i, "read", "unreadable", "parse")
ParseMergeFile == \E i \in DOMAIN loading : StepMergeFile(i, "parse", "notJson", "decode")

\* variant: a file that does not fit the schema is taken as it is
DecodeMergeFileLenient ==
    \E i \in DOMAIN loading : StepMergeFile(i, "decode", "never", "done")

DecodeMergeFile == \E i \in DOMAIN loading : StepMergeFile(i, "decode", "invalid", "done")

\* Effect.collectAllPar has every result, in the order of the paths; main
\* makes the two layers
MergeWithDone ==
    /\ pc = "mergeWith"
    /\ \A i \in DOMAIN loading : loading[i] = "done"
    /\ pc' = "createProgram"
    /\ namespaces' = << Namespace("Box", None, None, None, None, None) >>
    /\ additionalExtensions' = << >>
    /\ mergeWith' = mapSeq(env.mergeFiles, LAMBDA f : f.content)
    /\ UNCHANGED << parserVars, streams, acc, delivered, mainVars, unwindVars >>

\* makeParser: createProgram, then the Parser's streams go to the Serializer
CreateProgram ==
    /\ pc = "createProgram"
    /\ IF env.tsconfig /= "ok" THEN Fail
       ELSE /\ pc' = "fold"
            /\ streams' = startStreams(env.items, mergeWith)
            /\ UNCHANGED << parserVars, namespaces, additionalExtensions, mergeWith,
                            acc, delivered, mainVars, unwindVars >>

\* variant: the sort does not wait for the end of the fold
SortCatalogueEarly ==
    /\ pc = "fold"
    /\ env /= << >>
    /\ root' = sortRoot(acc)
    /\ pc' = "output"
    /\ UNCHANGED << parserVars, serializerVars, env, loading, effects, result,
                    unwindVars >>

\* Effect.map(root => ...): the sort of the keys and of each module's list
SortCatalogue ==
    /\ pc = "folded"
    /\ env /= << >>
    /\ root' = sortRoot(acc)
    /\ pc' = "output"
    /\ UNCHANGED << parserVars, serializerVars, env, loading, effects, result,
                    unwindVars >>

\* no output file: console.log(JSON.stringify(a, null, 2))
PrintCatalogue ==
    /\ pc = "output"
    /\ env.outputFile = None
    /\ effects' = Append(effects, [ op |-> "print", value |-> root ])
    /\ pc' = "done"
    /\ result' = "success"
    /\ UNCHANGED << parserVars, serializerVars, env, loading, root, unwindVars >>

\* writeOutput: Fs.mkdir(Path.dirname(path), { recursive: true })
MakeDirectory ==
    /\ pc = "output"
    /\ env.outputFile /= None
    /\ IF env.fs = "mkdirFails" THEN Fail
       ELSE /\ effects' = Append(effects, [ op |-> "mkdir",
                                            value |-> dirname(env.outputFile[1]) ])
            /\ pc' = "write"
            /\ UNCHANGED << parserVars, serializerVars, env, loading, root, result,
                    unwindVars >>

\* writeOutput: Fs.writeFile(path, a)
WriteCatalogue ==
    /\ pc = "write"
    /\ IF env.fs = "writeFails" THEN Fail
       ELSE /\ effects' = Append(effects, [ op |-> "write", value |-> root ])
            /\ pc' = "done"
            /\ result' = "success"
            /\ UNCHANGED << parserVars, serializerVars, env, loading, root,
                    unwindVars >>

NextMain ==
    \/ ReadConfig
    \/ ParseConfig
    \/ DecodeConfig
    \/ ReadMergeFile
    \/ ParseMergeFile
    \/ DecodeMergeFile
    \/ MergeWithDone
    \/ CreateProgram
    \/ DeliverFluent
    \/ DeliverGetter
    \/ DeliverPipeable
    \/ DeliverStatic
    \/ DeliverType
    \/ DeliverMergeWith
    \/ FoldDone
    \/ SortCatalogue
    \/ PrintCatalogue
    \/ MakeDirectory
    \/ WriteCatalogue

\* the run is interrupted from outside (the fiber of unsafeRunPromise, or the
\* process): whatever step was next does not happen
Abort ==
    /\ env /= << >>
    /\ pc \notin { "done", "failed", "aborted" }
    /\ pc' = "aborted"
    /\ result' = "interrupted"
    /\ UNCHANGED << parserVars, serializerVars, env, loading, root, effects,
                    unwindVars >>

NextMainOrAbort ==
    \/ ReadConfig
    \/ ParseConfig
    \/ DecodeConfig
    \/ ReadMergeFile
    \/ ParseMergeFile
    \/ DecodeMergeFile
    \/ MergeWithDone
    \/ CreateProgram
    \/ DeliverFluent
    \/ DeliverGetter
    \/ DeliverPipeable
    \/ DeliverStatic
    \/ DeliverType
    \/ DeliverMergeWith
    \/ FoldDone
    \/ SortCatalogue
    \/ PrintCatalogue
    \/ MakeDirectory
    \/ WriteCatalogue
    \/ Abort

SpecMainOrAbort == InitMain /\ [][NextMainOrAbort]_vars

SpecMain == InitMain /\ [][NextMain]_vars

\* --- the sort: what the fold hands to Effect.map(root => ...) ---
SortItems ==
    { << "fluent", Output("zip", "function", "p/Box", "Box", None) >>,
      << "getter", Output("size", "const", "p/Box", "Box", None) >>,
      << "pipeable", Output("map", "const", "p/Box", "Box", None) >>,
      << "static", Output("Map", "function", "p/Box", "Box", None) >>,
      << "static", Output("_map", "const", "p/Box", "Box", None) >>,
      << "static", Output("of", "function", "p/Box", "Box", None) >>,
      << "type", Output("map", "interface", "p/Box", "Box", None) >>,
      << "type", Output("Box", "type", "p/Box", "Box", None) >>,
      << "type", Output("Box", "class", "a/Box", "Box", None) >> }

SortCatalogues == { << >>, << CatalogueA >>, << CatalogueB >> }

\* main after createProgram, with the configuration and the files read
InitSort ==
    \E items \in Arrangements(SortItems, MaxItems), catalogues \in SortCatalogues :
        /\ pc = "fold"
        /\ ParserIdle
        /\ namespaces = << Namespace("Box", None, None, None, None, None) >>
        /\ additionalExtensions = << >>
        /\ mergeWith = catalogues
        /\ streams = startStreams(items, catalogues)
        /\ acc = NoCatalogue
        /\ delivered = << >>
        /\ env = [ config |-> "ok",
                   mergeFiles |-> mapSeq(catalogues, LAMBDA c : MergeFile("ok", c)),
                   tsconfig |-> "ok",
                   items |-> items,
                   outputFile |-> None,
                   fs |-> "ok" ]
        /\ loading = [ i \in DOMAIN catalogues |-> "done" ]
        /\ root = << >>
        /\ effects = << >>
        /\ result = "running"
        /\ UnwindIdle

NextSort ==
    \/ DeliverFluent
    \/ DeliverGetter
    \/ DeliverPipeable
    \/ DeliverStatic
    \/ DeliverType
    \/ DeliverMergeWith
    \/ FoldDone
    \/ SortCatalogue
    \/ PrintCatalogue

SpecSort == InitSort /\ [][NextSort]_vars


(***************************************************************************)
(* getFinalReturnType, call by call.                                       *)
(***************************************************************************)
\* every call signature of the program's types
UnwindSignatures == UNION { Range(callSignatures(t)) : t \in TypeIds }

InitUnwind ==
    /\ pc = "unwind"
    /\ ParserIdle
    /\ SerializerIdle
    /\ MainIdle
    /\ frames \in { << signature >> : signature \in UnwindSignatures }
    /\ returned = None

\* the signature of the innermost call
innermost == frames[Len(frames)]

\* if (nonFunctionReturnType(returnType)) return returnType
UnwindReturn ==
    /\ pc = "unwind"
    /\ nonFunctionReturnType(innermost.ret)
    /\ returned' = Some(innermost.ret)
    /\ pc' = "return"
    /\ UNCHANGED << parserVars, serializerVars, mainVars, frames >>

\* return getFinalReturnType(returnType.getCallSignatures()[0]): one more frame
UnwindCall ==
    /\ pc = "unwind"
    /\ ~nonFunctionReturnType(innermost.ret)
    /\ Len(frames) < MaxStack
    /\ frames' = Append(frames, callSignatures(innermost.ret)[1])
    /\ UNCHANGED << pc, parserVars, serializerVars, mainVars, returned >>

\* the same call with the stack full: the engine throws a RangeError, which no
\* frame catches
UnwindOverflow ==
    /\ pc = "unwind"
    /\ ~nonFunctionReturnType(innermost.ret)
    /\ Len(frames) = MaxStack
    /\ frames' = << >>
    /\ pc' = "RangeError"
    /\ UNCHANGED << parserVars, serializerVars, mainVars, returned >>

\* a call hands the value of the call it made to its own caller
UnwindPop ==
    /\ pc = "return"
    /\ frames' = SubSeq(frames, 1, Len(frames) - 1)
    /\ pc' = IF Len(frames) = 1 THEN "unwound" ELSE "return"
    /\ UNCHANGED << parserVars, serializerVars, mainVars, returned >>

NextUnwind ==
    \/ UnwindReturn
    \/ UnwindCall
    \/ UnwindOverflow
    \/ UnwindPop

SpecUnwind == InitUnwind /\ [][NextUnwind]_vars


(***************************************************************************)
(* From the exports to the catalogue: the Parser's result sets are the     *)
(* streams the Serializer folds.                                           *)
(***************************************************************************)
\* exports whose types resolve, and exports whose types do not
PipelineExports ==
    { Export("testConstant", "const", "number"),
      Export("synthetic", "const", "Synth"),
      Export("empty", "const", "Box"),
      Export("testGetter", "const", "tGetter"),
      Export("getSynth", "const", "tGetSynth"),
      Export("ident", "const", "tIdent"),
      Export("mapAny", "const", "tMapAny"),
      Export("sum", "function", "tSum"),
      Export("testFluent", "function", "tFluent"),
      Export("map", "const", "tMap"),
      Export("Box", "class", "Box") }

PipelineNamespaces == { << >>, << Namespace("p/Box", None, None, None, None, None) >> }

InitPipeline ==
    /\ pc = "filter"
    /\ moduleConfig = << << "p", [ staticPrefixes |-> << >>,
                                  fluentNamespaces |-> << "p/" >> ] >> >>
    /\ namespaceAliases = << >>
    /\ exported \in Arrangements(PipelineExports, MaxDecls) \ { << >> }
    /\ callables = << >>
    /\ constants = << >>
    /\ staticByName = << >>
    /\ getters = << >>
    /\ pipeables = << >>
    /\ fluents = << >>
    /\ statics = << >>
    /\ types = << >>
    /\ namespaces \in PipelineNamespaces
    /\ additionalExtensions = << >>
    /\ mergeWith \in { << >>, << CatalogueA >> }
    /\ streams = NoStreams
    /\ acc = NoCatalogue
    /\ delivered = << >>
    /\ MainIdle
    /\ UnwindIdle

\* Serializer.definitions: the five streams of the Parser and mergeWith are merged
StartFold ==
    /\ pc = "parsed"
    /\ streams' = [ k \in StreamNames |->
                      CASE k = "fluent" -> fluents
                        [] k = "getter" -> getters
                        [] k = "pipeable" -> pipeables
                        [] k = "static" -> statics
                        [] k = "type" -> types
                        [] k = "mergeWith" -> mergeWithFlat(mergeWith) ]
    /\ pc' = "fold"
    /\ UNCHANGED << parserVars, namespaces, additionalExtensions, mergeWith, acc,
                    delivered, mainVars, unwindVars >>

NextPipeline ==
    \/ FilterExports
    \/ ExtractStaticByName
    \/ ExtractGetters
    \/ ExtractPipeables
    \/ ExtractFluents
    \/ StaticFallback
    \/ StartFold
    \/ DeliverFluent
    \/ DeliverGetter
    \/ DeliverPipeable
    \/ DeliverStatic
    \/ DeliverType
    \/ DeliverMergeWith
    \/ FoldDone

SpecPipeline == InitPipeline /\ [][NextPipeline]_vars

(***************************************************************************)
(* Properties of the classification pass.                                  *)
(***************************************************************************)
Keys(seq) == { key(seq[i]) : i \in DOMAIN seq }
entryOf(seq, k) == CHOOSE x \in Range(seq) : key(x) = k
allCallables == Range(initialCallables(exportedWithDeclarations))

\* C1: after the classification pass (and at every step of it) no declaration
\* is a member of two of the result sets getters, fluents, pipeables, statics.
C1_MutualExclusion ==
    /\ Keys(getters) \cap Keys(fluents) = {}
    /\ Keys(getters) \cap Keys(pipeables) = {}
    /\ Keys(getters) \cap Keys(statics) = {}
    /\ Keys(fluents) \cap Keys(pipeables) = {}
    /\ Keys(fluents) \cap Keys(statics) = {}
    /\ Keys(pipeables) \cap Keys(statics) = {}

\* a declaration that passes the pipeable and the fluent test has been classified,
\* beside a second declaration in another result set
C1_Witness ==
    /\ pc = "parsed"
    /\ \E a \in allCallables :
          /\ IsSome(pipeablesTest(a)) /\ IsSome(fluentsTest(a))
          /\ key(a) \in Keys(pipeables)
    /\ statics /= << >>

\* the export has the shape f(a) => (self) => result: one parameter, and a
\* returned anonymous function type with one signature of one parameter
Curried(a) ==
    /\ Len(a.callSignature.params) = 1
    /\ TypeTable[a.returnType].sym
    /\ ~TypeTable[a.returnType].typeDecl
    /\ Len(callSignatures(a.returnType)) = 1
    /\ Len(callSignatures(a.returnType)[1].params) = 1
selfOf(a) == callSignatures(a.returnType)[1].params[1]
resultOf(a) == callSignatures(a.returnType)[1].ret
\* self is of an eligible type, and is data: it has no call signatures
EligibleSelf(a) ==
    /\ callSignatures(selfOf(a)) = << >>
    /\ IsSome(filterExportedInFluentNamespace(a.module, getTypeInformation(selfOf(a))))
selfTypeName(a) == getTypeInformation(selfOf(a))[1].typeName
\* f(a) => (self) => self' with typeName(self) = typeName(self')
CurriedFluentShape(a) ==
    /\ Curried(a)
    /\ ~hasStaticPrefix(a.module, a.name)
    /\ EligibleSelf(a)
    /\ typeNameOf(getTypeInformation(resultOf(a))) = Some(selfTypeName(a))

\* C4 as stated: the curried shape f(a) => (self) => self' ends up in the fluents
\* set with subject typeName(self), and in no other set.
C4_CurriedIsFluent ==
    pc = "parsed" =>
        \A a \in allCallables :
            CurriedFluentShape(a) =>
                /\ key(a) \in Keys(fluents)
                /\ entryOf(fluents, key(a)).typeName = selfTypeName(a)
                /\ key(a) \notin Keys(getters) \cup Keys(pipeables) \cup Keys(statics)

\* C4 as amended: the curried shape f(a) => (self) => self', with self' no
\* anonymous function, ends up in the pipeables set with subject typeName(self),
\* and not in getters, fluents or statics.
C4_CurriedIsPipeable ==
    pc = "parsed" =>
        \A a \in allCallables :
            CurriedFluentShape(a) /\ nonFunctionReturnType(resultOf(a)) =>
                /\ key(a) \in Keys(pipeables)
                /\ entryOf(pipeables, key(a)).typeName = selfTypeName(a)
                /\ key(a) \notin Keys(getters) \cup Keys(fluents) \cup Keys(statics)

C4_Witness ==
    /\ pc = "parsed"
    /\ \E a \in allCallables :
          /\ CurriedFluentShape(a)
          /\ nonFunctionReturnType(resultOf(a))
          /\ key(a) \in Keys(pipeables)

\* f(a) => (self) => derivedValue, the name matching no static prefix
PipeableShape(a) ==
    /\ Curried(a)
    /\ ~hasStaticPrefix(a.module, a.name)
    /\ EligibleSelf(a)

\* C5 as stated: every export f(a) => (self) => derivedValue with a single,
\* non-callable, eligible self is in the pipeables set, its subject typeName that
\* of self's type.
C5_PipeableDetected ==
    pc = "parsed" =>
        \A a \in allCallables :
            PipeableShape(a) =>
                /\ key(a) \in Keys(pipeables)
                /\ entryOf(pipeables, key(a)).typeName = selfTypeName(a)

\* C5 as amended: the same, for a derivedValue that is not itself an anonymous
\* function (it has no call signature, or is a named class, interface or alias).
C5_PipeableDetectedNonFunction ==
    pc = "parsed" =>
        \A a \in allCallables :
            PipeableShape(a) /\ nonFunctionReturnType(resultOf(a)) =>
                /\ key(a) \in Keys(pipeables)
                /\ entryOf(pipeables, key(a)).typeName = selfTypeName(a)

\* a pipeable whose derived value is of another type than self, and whose own
\* parameter is of another type than self
C5_Witness ==
    /\ pc = "parsed"
    /\ \E a \in allCallables :
          /\ PipeableShape(a)
          /\ typeNameOf(getTypeInformation(resultOf(a))) /= Some(selfTypeName(a))
          /\ a.callSignature.params[1] /= selfOf(a)
          /\ key(a) \in Keys(pipeables)
          /\ entryOf(pipeables, key(a)).typeName = selfTypeName(a)

\* C6: a callable whose name starts with a static prefix of its module is never
\* in getters, fluents or pipeables, and is in statics once the pass is over.
C6_StaticByNameFirst ==
    \A a \in allCallables :
        hasStaticPrefix(a.module, a.name) =>
            /\ key(a) \notin Keys(getters) \cup Keys(fluents) \cup Keys(pipeables)
            /\ pc = "parsed" => key(a) \in Keys(statics)

\* a static-by-name export of getter shape is in statics
C6_Witness ==
    /\ pc = "parsed"
    /\ \E a \in allCallables :
          /\ hasStaticPrefix(a.module, a.name)
          /\ IsSome(gettersTest(a))
          /\ key(a) \in Keys(statics)


\* the first parameter of the export's own signature
firstParam(a) == a.callSignature.params[1]
\* it is data (no call signatures) of a type in an eligible namespace of the module
EligibleFirstParam(a) ==
    /\ a.callSignature.params /= << >>
    /\ callSignatures(firstParam(a)) = << >>
    /\ IsSome(filterExportedInFluentNamespace(a.module, getTypeInformation(firstParam(a))))
firstParamTypeName(a) == getTypeInformation(firstParam(a))[1].typeName
GetterShape(a) == Len(a.callSignature.params) = 1 /\ EligibleFirstParam(a)
inGetters(a) ==
    /\ key(a) \in Keys(getters)
    /\ EligibleFirstParam(a)
    /\ entryOf(getters, key(a)).typeName = firstParamTypeName(a)

finalReturnTypeName(a) == getFinalReturnTypeName(a.callSignature)
\* the callable a fluent entry was made from
callableOf(d) == CHOOSE a \in allCallables : key(a) = key(d)
FluentShape(a, least) ==
    /\ Len(a.callSignature.params) >= least
    /\ EligibleFirstParam(a)
    /\ finalReturnTypeName(a) \in { None, Some(firstParamTypeName(a)) }

ReturnsOwnNamespace(a) ==
    LET ret == getTypeInformation(getFinalReturnType(a.callSignature))
    IN  /\ IsSome(filterExportedInFluentNamespace(a.module, ret))
        /\ startsWith(namespaceFromModule(namespaceAliases, a.module),
                      split(ret[1].typeName, ".")[1])

\* C17: every callable of the statics set has the namespace of its declaring
\* module as typeName, unless its final return type is of an eligible type of the
\* same top-level namespace, and then that type's typeName; and every callable
\* that is in none of getters, fluents and pipeables is in the statics set.
C17_StaticTarget ==
    pc = "parsed" =>
        \A a \in allCallables :
            key(a) \notin Keys(getters) \cup Keys(fluents) \cup Keys(pipeables) =>
                /\ key(a) \in Keys(statics)
                /\ entryOf(statics, key(a)).typeName =
                      IF ReturnsOwnNamespace(a) THEN finalReturnTypeName(a)[1]
                      ELSE namespaceFromModule(namespaceAliases, a.module)

\* a static that takes the typeName of its return type, which is not the
\* namespace of its module, beside a static that returns an eligible type of
\* another namespace and keeps the namespace of its module
C17_Witness ==
    /\ pc = "parsed"
    /\ \E a, b \in allCallables :
          /\ key(a) \in Keys(statics) /\ ReturnsOwnNamespace(a)
          /\ entryOf(statics, key(a)).typeName /= namespaceFromModule(namespaceAliases, a.module)
          /\ key(b) \in Keys(statics) /\ ~ReturnsOwnNamespace(b)
          /\ IsSome(filterExportedInFluentNamespace(b.module,
                        getTypeInformation(getFinalReturnType(b.callSignature))))
          /\ entryOf(statics, key(b)).typeName = namespaceFromModule(namespaceAliases, b.module)


\* the test of a pass, by the name of the set the pass fills
passes(pass, a) ==
    CASE pass = "staticByName" -> hasStaticPrefix(a.module, a.name)
      [] pass = "getters" -> IsSome(gettersTest(a))
      [] pass = "fluents" -> IsSome(fluentsTest(a))
      [] pass = "pipeables" -> IsSome(pipeablesTest(a))
\* the first pass of the order whose test the callable satisfies
RECURSIVE earliestPass(_, _)
earliestPass(order, a) ==
    IF order = << >> THEN "none"
    ELSE IF passes(Head(order), a) THEN Head(order)
    ELSE earliestPass(Tail(order), a)
\* the set of the result the callable is in
placeOf(a) ==
    CASE key(a) \in Keys(staticByName) -> "staticByName"
      [] key(a) \in Keys(getters) -> "getters"
      [] key(a) \in Keys(fluents) -> "fluents"
      [] key(a) \in Keys(pipeables) -> "pipeables"
      [] OTHER -> "none"
assignedInOrder(order) ==
    pc = "parsed" => \A a \in allCallables : placeOf(a) = earliestPass(order, a)

\* C21 as stated: every callable is assigned to the earliest pass, in the order
\* static-name-prefix, getter, fluent, pipeable, whose test it satisfies; one
\* that satisfies the fluent and the pipeable test is classified fluent.
C21_FluentsBeforePipeables ==
    assignedInOrder(<< "staticByName", "getters", "fluents", "pipeables" >>)

\* C21 as amended: the order is static-name-prefix, getter, pipeable, fluent;
\* the fluent pass runs on a pool that holds no callable satisfying an earlier
\* test, and the pipeable pass runs before any fluent is extracted.
C21_PipeablesBeforeFluents ==
    /\ assignedInOrder(<< "staticByName", "getters", "pipeables", "fluents" >>)
    /\ pc = "fluents" =>
          \A i \in DOMAIN callables :
              earliestPass(<< "staticByName", "getters", "pipeables" >>, callables[i]) = "none"
    /\ pc \in { "filter", "staticByName", "getters", "pipeables", "fluents" } => fluents = << >>
    /\ pc \in { "filter", "staticByName", "getters", "pipeables" } => pipeables = << >>
    /\ pc \in { "filter", "staticByName", "getters" } => getters = << >>

\* a callable that is no getter and satisfies the fluent and the pipeable test
\* has been classified pipeable, and a fluent was extracted after it
C21_Witness ==
    /\ pc = "parsed"
    /\ fluents /= << >>
    /\ \E a \in allCallables :
          /\ ~passes("staticByName", a) /\ ~passes("getters", a)
          /\ passes("fluents", a) /\ passes("pipeables", a)
          /\ placeOf(a) = "pipeables"


keysOf(seq) == [ i \in DOMAIN seq |-> key(seq[i]) ]
\* the sequence keeps the relative order of the pool it was taken from
inOrderOf(part, pool) ==
    keysOf(part) = SelectSeq(keysOf(pool), LAMBDA k : k \in Keys(part))
\* matched and rest split the pool: disjoint, nothing lost, nothing twice, in order
splits(pool, matched, rest) ==
    /\ Keys(matched) \cap Keys(rest) = {}
    /\ Keys(matched) \cup Keys(rest) = Keys(pool)
    /\ Len(matched) + Len(rest) = Len(pool)
    /\ inOrderOf(matched, pool)
    /\ inOrderOf(rest, pool)
\* the callables among the statics, in order (the constants follow them)
staticCallablesOf(seq) == SubSeq(seq, 1, Len(seq) - Len(constants))

\* C22: each of the four passes splits the pool it finds into the matched list
\* and the new pool (disjoint, together the old pool, each in the old order), so
\* the pool only shrinks; the static fallback takes the static-by-name callables
\* followed by the pool the last pass left, and nothing else.
C22_PassesPartition ==
    [][ /\ pc = "staticByName" => splits(callables, staticByName', callables')
        /\ pc = "getters" => splits(callables, getters', callables')
        /\ pc = "pipeables" => splits(callables, pipeables', callables')
        /\ pc = "fluents" => splits(callables, fluents', callables')
        /\ pc \in { "staticByName", "getters", "pipeables", "fluents" } =>
              Len(callables') <= Len(callables)
        /\ pc = "statics" =>
              /\ keysOf(staticCallablesOf(statics')) = keysOf(staticByName \o callables)
              /\ \A i \in DOMAIN callables :
                    key(callables[i]) \notin Keys(staticByName) \cup Keys(getters)
                                               \cup Keys(pipeables) \cup Keys(fluents) ]_vars

\* the getter pass has split a pool of two into a getter and a pool of one
C22_Witness ==
    /\ pc = "pipeables"
    /\ Len(getters) = 1
    /\ Len(callables) = 1
    /\ Len(initialCallables(exportedWithDeclarations)) = 2

(***************************************************************************)
(* Properties of the Serializer.                                           *)
(***************************************************************************)
localDeliveries == { i \in DOMAIN delivered : delivered[i].source /= "mergeWith" }

\* the positions of the configs whose name is a prefix of the typeName
matching(list, typeName) == { i \in DOMAIN list : startsWith(typeName, list[i].name) }

\* the positions of `matching` with no longer name among them
longestMatching(list, typeName) ==
    { i \in matching(list, typeName) :
        \A j \in matching(list, typeName) : Len(list[j].name) <= Len(list[i].name) }

\* every order of the list
orderings(list) ==
    { [ i \in DOMAIN list |-> list[f[i]] ] :
        f \in { g \in [ DOMAIN list -> DOMAIN list ] :
                  \A i, j \in DOMAIN list : i /= j => g[i] /= g[j] } }

nameOf(m) == IF IsSome(m) THEN Some(m[1].name) ELSE None

\* C2: the config selected for a typeName is one whose name is a prefix of
\* the typeName and no matching config has a longer name, whatever the order
\* of the list; without a matching config nothing is selected.  The policy
\* step builds its output module from the config selected in this way.
C2_LongestPrefixWins ==
    \A i \in localDeliveries :
        LET a == delivered[i].input[1]
            out == delivered[i].output
            sel == findNamespace(namespaces, a.typeName)
        IN  /\ matching(namespaces, a.typeName) = {} => sel = None /\ out = None
            /\ matching(namespaces, a.typeName) /= {} =>
                 /\ IsSome(sel)
                 /\ \E j \in longestMatching(namespaces, a.typeName) :
                        sel[1].name = namespaces[j].name
                 /\ \A o \in orderings(namespaces) :
                        nameOf(findNamespace(o, a.typeName)) = Some(sel[1].name)
            /\ IsSome(out) =>
                 \E j \in longestMatching(namespaces, a.typeName) :
                     out[1][1] = a.module \o orEmpty(namespaces[j].moduleFileExtension)

\* "Foo.Bar.baz" went through the list "Foo", "Foo.Bar" and came out under "Foo.Bar"
C2_Witness ==
    /\ pc = "folded"
    /\ mapSeq(namespaces, LAMBDA ns : ns.name) = << "Foo", "Foo.Bar" >>
    /\ \E i \in localDeliveries :
          /\ delivered[i].input[1].typeName = "Foo.Bar.baz"
          /\ delivered[i].output /= None
          /\ delivered[i].output[1][1] = "p/Foo/Bar@Foo.Bar"
          /\ "p/Foo/Bar@Foo.Bar" \in DOMAIN acc

inExclude(ns, a) ==
    IsSome(ns.exclude) /\ (a.module \o "#" \o a.name) \in Range(ns.exclude[1])

\* C3: a declaration whose module#name is in the exclude list of the config
\* selected for its typeName yields no Definition in its category, whatever
\* the category's flags and the overrides say.
C3_ExclusionAbsolute ==
    \A i \in localDeliveries :
        LET a == delivered[i].input[1]
            sel == findNamespace(namespaces, a.typeName)
        IN  (IsSome(sel) /\ inExclude(sel[1], a)) =>
                /\ delivered[i].output = None
                /\ mergeWith = << >> =>
                     \A m \in DOMAIN acc : \A j \in DOMAIN acc[m] :
                         acc[m][j].definitionName /= a.name

\* an excluded pipeable with include, static promotion, companion and an
\* override all set went through and left nothing
C3_Witness ==
    /\ pc = "folded"
    /\ acc = NoCatalogue
    /\ \E i \in localDeliveries :
          LET a == delivered[i].input[1]
              sel == findNamespace(namespaces, a.typeName)
          IN  /\ delivered[i].source = "pipeable"
              /\ IsSome(sel)
              /\ inExclude(sel[1], a)
              /\ IsSome(sel[1].kinds["pipeable"])
              /\ sel[1].kinds["pipeable"][1].include
              /\ sel[1].kinds["pipeable"][1].includeStatic
              /\ sel[1].kinds["pipeable"][1].includeCompanion
              /\ additional(additionalExtensions, a.typeName, a.name) /= << >>
              /\ delivered[i].output = None

\* the kind and typeName of each extension, in order
shape(extensions) ==
    mapSeq(extensions, LAMBDA e : [ kind |-> e.kind, typeName |-> e.typeName ])

\* the places of the catalogue that hold a Definition of the given name
definitionsNamed(n) ==
    UNION { { << m, j >> : j \in { k \in DOMAIN acc[m] : acc[m][k].definitionName = n } } :
            m \in DOMAIN acc }

\* scenario A: the pipeable `map` of subject "Box" (returning a Box) under a
\* config for "Box" that includes pipeables with static promotion and the
\* suffix ".Ops", without companion, exclusion or override
ScenarioA(d) ==
    /\ d.source = "pipeable"
    /\ d.input[1].name = "map"
    /\ d.input[1].typeName = "Box"
    /\ d.input[1].outputTypeName = Some("Box")
    /\ LET sel == findNamespace(namespaces, "Box")
       IN  /\ IsSome(sel)
           /\ ~inExclude(sel[1], d.input[1])
           /\ IsSome(sel[1].kinds["pipeable"])
           /\ sel[1].kinds["pipeable"][1].include
           /\ sel[1].kinds["pipeable"][1].includeStatic
           /\ sel[1].kinds["pipeable"][1].staticSuffix = Some(".Ops")
           /\ ~sel[1].kinds["pipeable"][1].includeCompanion
    /\ additional(additionalExtensions, "Box", "map") = << >>
    /\ mergeWith = << >>

\* C7: in scenario A the catalogue holds exactly one Definition for `map`,
\* and its extensions are exactly: pipeable on "Box", then static on "Box.Ops".
C7_ScenarioA ==
    \A i \in localDeliveries :
        ScenarioA(delivered[i]) =>
            /\ IsSome(delivered[i].output)
            /\ delivered[i].output[1][2].definitionName = "map"
            /\ shape(delivered[i].output[1][2].extensions)
                 = << [ kind |-> "pipeable", typeName |-> "Box" ],
                      [ kind |-> "static", typeName |-> "Box.Ops" ] >>
            /\ pc = "folded" =>
                 /\ Cardinality(definitionsNamed("map")) = 1
                 /\ \A pl \in definitionsNamed("map") :
                        acc[pl[1]][pl[2]] = delivered[i].output[1][2]

\* scenario A ran to the end of the fold
C7_Witness ==
    /\ pc = "folded"
    /\ \E i \in localDeliveries : ScenarioA(delivered[i])
    /\ "p/Box" \in DOMAIN acc
    /\ Len(acc["p/Box"]) = 1
    /\ Len(acc["p/Box"][1].extensions) = 2

\* the tuples the local streams handed to the fold, in arrival order
localTuples ==
    mapSeq(SelectSeq(delivered,
                     LAMBDA d : d.source /= "mergeWith" /\ IsSome(d.output)),
           LAMBDA d : d.output[1])

RECURSIVE foldAll(_, _)
foldAll(a, tuples) ==
    IF tuples = << >> THEN a ELSE foldAll(fold(a, Head(tuples)), Tail(tuples))

reverse(seq) == [ i \in DOMAIN seq |-> seq[Len(seq) + 1 - i] ]

bagOf(seq) == [ x \in Range(seq) |-> Cardinality({ i \in DOMAIN seq : seq[i] = x }) ]

sameContent(a, b) ==
    /\ DOMAIN a = DOMAIN b
    /\ \A m \in DOMAIN a : bagOf(a[m]) = bagOf(b[m])

\* the catalogue of a run over the same local tuples with mergeWith reversed
reversedRun == foldAll(NoCatalogue, localTuples \o mergeWithFlat(reverse(mergeWith)))

\* C8: the final catalogue has the module keys and, per module, the multiset
\* of Definitions of the run with the catalogues of mergeWith in the other
\* order, whatever the interleaving of the streams.
C8_MergeOrderIndependent ==
    pc = "folded" => sameContent(acc, reversedRun)

\* two catalogues sharing a module were merged next to local definitions,
\* and the module's list came out in another order than in the reversed run
C8_Witness ==
    /\ pc = "folded"
    /\ Len(mergeWith) = 2
    /\ localTuples /= << >>
    /\ \E m \in DOMAIN acc :
          /\ \E e \in Range(mergeWith[1]) : e[1] = m
          /\ \E e \in Range(mergeWith[2]) : e[1] = m
          /\ acc[m] /= reversedRun[m]

\* the deliveries that reached the fold
reaching == { i \in DOMAIN delivered : IsSome(delivered[i].output) }

sameKey(i, j) ==
    /\ delivered[i].output[1][1] = delivered[j].output[1][1]
    /\ delivered[i].output[1][2].definitionName = delivered[j].output[1][2].definitionName
    /\ delivered[i].output[1][2].definitionKind = delivered[j].output[1][2].definitionKind

\* the positions of the module's list with the key of delivery i
positionsOf(i) ==
    { k \in DOMAIN acc[delivered[i].output[1][1]] :
        /\ acc[delivered[i].output[1][1]][k].definitionName
             = delivered[i].output[1][2].definitionName
        /\ acc[delivered[i].output[1][1]][k].definitionKind
             = delivered[i].output[1][2].definitionKind }

\* C9: two entries reaching the fold with the same (module, name, kind) end
\* up as one Definition holding the extensions of both.
C9_SameKeyMerged ==
    pc = "folded" =>
        \A i, j \in reaching :
            (i < j /\ sameKey(i, j)) =>
                /\ Cardinality(positionsOf(i)) = 1
                /\ \A k \in positionsOf(i) :
                       LET exts == acc[delivered[i].output[1][1]][k].extensions
                       IN  /\ Range(delivered[i].output[1][2].extensions) \subseteq Range(exts)
                           /\ Range(delivered[j].output[1][2].extensions) \subseteq Range(exts)
                           /\ Len(exts) >= Len(delivered[i].output[1][2].extensions)
                                           + Len(delivered[j].output[1][2].extensions)

\* the number a string of decimal digits denotes
digitValue(c) ==
    CASE c = "0" -> 0 [] c = "1" -> 1 [] c = "2" -> 2 [] c = "3" -> 3 [] c = "4" -> 4
      [] c = "5" -> 5 [] c = "6" -> 6 [] c = "7" -> 7 [] c = "8" -> 8 [] c = "9" -> 9
      [] OTHER -> 0 - 1

RECURSIVE decimalValue(_)
decimalValue(str) ==
    IF Len(str) = 1 THEN digitValue(str)
    ELSE 10 * decimalValue(SubSeq(str, 1, Len(str) - 1))
         + digitValue(SubSeq(str, Len(str), Len(str)))

\* str is the decimal string of the natural number n
isDecimalOf(str, n) ==
    /\ Len(str) >= 1
    /\ \A i \in 1..Len(str) : digitValue(SubSeq(str, i, i)) >= 0
    /\ Len(str) > 1 => SubSeq(str, 1, 1) /= "0"
    /\ decimalValue(str) = n

\* the entries of the table whose key is a prefix of the module, longest key only
longestKeys(table, module) ==
    { i \in DOMAIN table :
        /\ startsWith(module, table[i][1])
        /\ \A j \in DOMAIN table :
              startsWith(module, table[j][1]) => Len(table[j][1]) <= Len(table[i][1]) }

\* the cascade: category, else namespace, else module table, else absent
cascade(config, ns, module) ==
    IF IsSome(config.priority) THEN config.priority
    ELSE IF IsSome(ns.priority) THEN ns.priority
    ELSE IF longestKeys(OrElse(ns.modulePriority, << >>), module) = {} THEN None
    ELSE Some(ns.modulePriority[1][
             CHOOSE i \in longestKeys(ns.modulePriority[1], module) : TRUE][2])

\* C10: the priority of the primary extension is the decimal string of the
\* category's priority if set (0 included), else of the namespace's priority
\* if set, else of the modulePriority entry with the longest key that is a
\* prefix of the module, else absent.
C10_PriorityCascade ==
    \A i \in localDeliveries :
        IsSome(delivered[i].output) =>
            LET a == delivered[i].input[1]
                ns == findNamespace(namespaces, a.typeName)[1]
                config == OrElse(ns.kinds[delivered[i].source], defaultKindConfig)
                want == cascade(config, ns, a.module)
                got == delivered[i].output[1][2].extensions[1].priority
            IN  /\ want = None => got = None
                /\ want /= None => IsSome(got) /\ isDecimalOf(got[1], want[1])

\* a category priority of 0 won over a namespace priority and a module table
C10_Witness ==
    /\ pc = "folded"
    /\ \E i \in localDeliveries :
          /\ IsSome(delivered[i].output)
          /\ LET a == delivered[i].input[1]
                 ns == findNamespace(namespaces, a.typeName)[1]
             IN  /\ IsSome(ns.kinds[delivered[i].source])
                 /\ ns.kinds[delivered[i].source][1].priority = Some(0)
                 /\ IsSome(ns.priority) /\ ns.priority[1] > 0
                 /\ findModulePriority(ns, a.module) /= None
                 /\ delivered[i].output[1][2].extensions[1].priority = Some("0")
                 /\ \E m \in DOMAIN acc :
                        acc[m][1].extensions[1].priority = Some("0")

\* the module table decided, by its longest key, and gave a two-digit string
C10_WitnessTable ==
    /\ pc = "folded"
    /\ \E i \in localDeliveries :
          /\ IsSome(delivered[i].output)
          /\ LET a == delivered[i].input[1]
                 ns == findNamespace(namespaces, a.typeName)[1]
             IN  /\ ns.priority = None
                 /\ OrElse(ns.kinds[delivered[i].source], defaultKindConfig).priority = None
                 /\ Cardinality(matching(mapSeq(OrElse(ns.modulePriority, << >>),
                                                LAMBDA e : [ name |-> e[1] ]),
                                         a.module)) = 2
                 /\ Len(delivered[i].output[1][2].extensions[1].priority[1]) = 2


\* the configs of the list with the longest name that starts the typeName
selected(typeName) == { namespaces[j] : j \in longestMatching(namespaces, typeName) }
\* the category is not switched off: no config of its own, or include is set
notDisabled(ns, k) == ~(IsSome(ns.kinds[k]) /\ ~ns.kinds[k][1].include)

\* C18: a classified declaration of category k yields a Definition (of that
\* category) if and only if a config's name is a prefix of its typeName, the
\* selected config does not switch k off, and its module#name is not in the
\* selected config's exclude list.
C18_CategoryGating ==
    \A i \in localDeliveries :
        LET a == delivered[i].input[1]
            k == delivered[i].source
            out == delivered[i].output
        IN  /\ IsSome(out) <=>
                 /\ selected(a.typeName) /= {}
                 /\ \A ns \in selected(a.typeName) : notDisabled(ns, k) /\ ~inExclude(ns, a)
            /\ IsSome(out) =>
                 /\ out[1][2].definitionName = a.name
                 /\ out[1][2].extensions[1].kind = k

\* a getter whose config names it in no exclude list and switches getters off
\* left nothing in the catalogue
C18_Witness ==
    /\ pc = "folded"
    /\ acc = NoCatalogue
    /\ \E i \in localDeliveries :
          LET a == delivered[i].input[1]
          IN  /\ delivered[i].source = "getter"
              /\ selected(a.typeName) /= {}
              /\ \A ns \in selected(a.typeName) :
                    /\ IsSome(ns.exclude) /\ ~inExclude(ns, a)
                    /\ ~notDisabled(ns, "getter")
              /\ delivered[i].output = None

\* the extensions of kind static among the given ones
staticsAmong(extensions) == SelectSeq(extensions, LAMBDA e : e.kind = "static")
\* the extensions the policy step computed: all but the overrides at the end
computed(d) ==
    SubSeq(d.output[1][2].extensions, 1,
           Len(d.output[1][2].extensions)
             - Cardinality({ j \in DOMAIN additionalExtensions :
                   additionalExtensions[j].target
                     = d.input[1].typeName \o "#" \o d.input[1].name }))
configOf(d) ==
    LET ns == CHOOSE n \in selected(d.input[1].typeName) : TRUE
    IN  IF IsSome(ns.kinds[d.source]) THEN ns.kinds[d.source][1] ELSE defaultKindConfig

\* C19: the Definition of a fluent, getter or pipeable declaration whose
\* category config enables includeStatic carries exactly one computed extension
\* of kind static, right after the primary one, named like the declaration, on
\* the output typeName (if staticUsesOutputType is set and there is one) or else
\* on the subject typeName, followed by the static suffix; without includeStatic
\* it carries no computed extension of kind static.
C19_StaticPromotionTarget ==
    \A i \in localDeliveries :
        LET d == delivered[i]
            a == d.input[1]
        IN  d.source \in { "fluent", "getter", "pipeable" } /\ IsSome(d.output) =>
                IF configOf(d).includeStatic
                THEN /\ Len(staticsAmong(computed(d))) = 1
                     /\ computed(d)[2].kind = "static"
                     /\ computed(d)[2].name = Some(a.name)
                     /\ computed(d)[2].typeName =
                           (IF configOf(d).staticUsesOutputType /\ IsSome(a.outputTypeName)
                            THEN a.outputTypeName[1] ELSE a.typeName)
                           \o (IF IsSome(configOf(d).staticSuffix)
                               THEN configOf(d).staticSuffix[1] ELSE "")
                ELSE staticsAmong(computed(d)) = << >>

\* a fluent on "Box" that returns an "Opt" was promoted to a static on "Opt.Ops"
C19_Witness ==
    /\ pc = "folded"
    /\ \E i \in localDeliveries :
          LET d == delivered[i]
          IN  /\ d.source = "fluent"
              /\ IsSome(d.output)
              /\ d.input[1].typeName = "Box"
              /\ d.input[1].outputTypeName = Some("Opt")
              /\ configOf(d).includeStatic
              /\ configOf(d).staticUsesOutputType
              /\ computed(d)[2].typeName = "Opt.Ops"
              /\ \E m \in DOMAIN acc : \E j \in DOMAIN acc[m] :
                    acc[m][j].extensions = d.output[1][2].extensions

\* the override tuples whose key is typeName#name, in configuration order
overridesFor(a) ==
    SelectSeq(additionalExtensions, LAMBDA t : t.target = a.typeName \o "#" \o a.name)
\* the extension an override tuple stands for
overrideExtension(t) ==
    [ kind |-> t.kind,
      typeName |-> IF IsSome(t.targetTypeName) THEN t.targetTypeName[1]
                   ELSE SubSeq(t.target, 1, indexOf(t.target, "#") - 1),
      name |-> Some(t.name),
      priority |-> None ]
\* the kinds of the computed extensions: primary, promoted static, companion
computedKinds(d, allowStatic) ==
    << d.source >>
    \o (IF allowStatic /\ configOf(d).includeStatic THEN << "static" >> ELSE << >>)
    \o (IF configOf(d).includeCompanion THEN << "companion" >> ELSE << >>)

\* C20: the extensions of every emitted Definition are the computed ones
\* (primary, promoted static, companion), all of them, followed by the
\* extensions of exactly the override tuples whose key is its classified
\* typeName "#" its name, in configuration order.
C20_ManualOverrides ==
    \A i \in localDeliveries :
        LET d == delivered[i]
            exts == d.output[1][2].extensions
            own == overridesFor(d.input[1])
            n == Len(exts) - Len(own)
        IN  IsSome(d.output) =>
                /\ n >= 1
                /\ [ j \in 1..n |-> exts[j].kind ]
                     = computedKinds(d, d.source \in { "fluent", "getter", "pipeable" })
                /\ [ j \in 1..Len(own) |-> exts[n + j] ]
                     = [ j \in 1..Len(own) |-> overrideExtension(own[j]) ]

\* the pipeable `map`, with promoted static and companion, went through two
\* overrides for "Box#map", the second after a tuple for another key
C20_Witness ==
    /\ pc = "folded"
    /\ Len(additionalExtensions) = 3
    /\ additionalExtensions[1].target = "Box#map"
    /\ additionalExtensions[2].target = "Box#size"
    /\ additionalExtensions[3].target = "Box#map"
    /\ \E i \in localDeliveries :
          LET d == delivered[i]
          IN  /\ d.source = "pipeable"
              /\ IsSome(d.output)
              /\ Len(d.output[1][2].extensions) = 5
              /\ configOf(d).includeStatic /\ configOf(d).includeCompanion
              /\ d.output[1][2].extensions[4].typeName /= d.output[1][2].extensions[5].typeName

\* the configured namespaces one of whose names is a string-prefix of typeName
prefixing(typeName) ==
    { i \in DOMAIN namespaces : startsWith(typeName, namespaces[i].name) }

\* the deliveries of the Parser streams whose typeName no config prefixes
unmatched ==
    { i \in DOMAIN delivered :
        /\ delivered[i].source /= "mergeWith"
        /\ prefixing(delivered[i].input[1].typeName) = {} }

\* C27: a classified declaration whose typeName no configured namespace name
\* prefixes produces no Definition and no failure; what the fold holds is the
\* fold of the deliveries that did produce one, and with an empty namespace
\* list the finished catalogue is the fold of the mergeWith definitions alone.
C27_UnmatchedDropped ==
    /\ pc \in { "fold", "folded" }
    /\ \A i \in unmatched : delivered[i].output = None
    /\ acc = foldAll(NoCatalogue,
                     mapSeq(SelectSeq(delivered, LAMBDA d : IsSome(d.output)),
                            LAMBDA d : d.output[1]))
    /\ (pc = "folded" /\ namespaces = << >>)
          => acc = foldAll(NoCatalogue, mergeWithFlat(mergeWith))

\* with configs present, a declaration that none of them prefixes was dropped
C27_Witness ==
    /\ pc = "folded"
    /\ namespaces /= << >>
    /\ unmatched /= {}
    /\ acc = NoCatalogue

\* with no config at all, two local declarations were dropped and the
\* catalogue holds the definitions of two mergeWith catalogues
C27_WitnessEmptyList ==
    /\ pc = "folded"
    /\ namespaces = << >>
    /\ Cardinality(unmatched) = 2
    /\ Len(mergeWith) = 2
    /\ acc /= NoCatalogue

\* C28: a Definition made from the static stream carries exactly one computed
\* extension of kind static, its primary one, named like the declaration, on
\* the typeName followed by the configured static suffix; a Definition made
\* from the type stream has a primary extension of kind type without a name
\* and no computed extension of kind static. Both hold whatever includeStatic
\* is in the category config.
C28_NoPromotionForStaticsAndTypes ==
    \A i \in localDeliveries :
        LET d == delivered[i]
            a == d.input[1]
        IN  /\ d.source = "static" /\ IsSome(d.output) =>
                /\ Len(staticsAmong(computed(d))) = 1
                /\ computed(d)[1].kind = "static"
                /\ computed(d)[1].name = Some(a.name)
                /\ computed(d)[1].typeName =
                       a.typeName \o (IF IsSome(configOf(d).staticSuffix)
                                      THEN configOf(d).staticSuffix[1] ELSE "")
            /\ d.source = "type" /\ IsSome(d.output) =>
                /\ staticsAmong(computed(d)) = << >>
                /\ computed(d)[1].kind = "type"
                /\ computed(d)[1].name = None
                /\ computed(d)[1].typeName = a.typeName

\* a static whose category config sets includeStatic and a suffix got its
\* Definition, with the companion next to the one static extension
C28_Witness ==
    /\ pc = "folded"
    /\ \E i \in localDeliveries :
          LET d == delivered[i]
          IN  /\ d.source = "static"
              /\ IsSome(d.output)
              /\ configOf(d).includeStatic
              /\ configOf(d).includeCompanion
              /\ configOf(d).staticSuffix = Some(".Ops")
              /\ Len(computed(d)) = 2

\* a type whose category config sets includeStatic got its Definition
C28_WitnessType ==
    /\ pc = "folded"
    /\ \E i \in localDeliveries :
          LET d == delivered[i]
          IN  /\ d.source = "type"
              /\ IsSome(d.output)
              /\ configOf(d).includeStatic
              /\ Len(computed(d)) = 1

(***************************************************************************)
(* Properties of the run of main.                                          *)
(***************************************************************************)
\* the configuration file, every mergeWith file and the tsconfig are good
inputsGood ==
    /\ env.config = "ok"
    /\ \A i \in DOMAIN env.mergeFiles : env.mergeFiles[i].status = "ok"
    /\ env.tsconfig = "ok"

\* C11: when the configuration file or a mergeWith file cannot be read,
\* parsed or validated, or the program cannot be made from the tsconfig, the
\* run ends in failure, no stream element is consumed and nothing is printed
\* or written; output happens only on runs where all of these succeeded.
C11_FailFast ==
    /\ ~inputsGood =>
          /\ delivered = << >>
          /\ streams = NoStreams
          /\ effects = << >>
          /\ result /= "success"
          /\ pc /= "done"
          /\ ~ENABLED NextMain => pc = "failed" /\ result = "failure"
    /\ effects /= << >> => inputsGood

\* the second mergeWith file did not fit the schema after the first one was
\* loaded; the Parser had something to classify and an output file was named
C11_Witness ==
    /\ pc = "failed"
    /\ result = "failure"
    /\ env.config = "ok"
    /\ env.tsconfig = "ok"
    /\ env.items /= << >>
    /\ Len(env.mergeFiles) = 2
    /\ env.mergeFiles[1].status = "ok"
    /\ env.mergeFiles[2].status = "invalid"
    /\ loading[1] = "done"
    /\ delivered = << >>
    /\ effects = << >>


\* the fold has taken every element of the six streams
foldComplete ==
    /\ streams /= NoStreams
    /\ \A k \in StreamNames : streams[k] = << >>
    /\ Len(delivered) = Len(env.items) + Len(mergeWithFlat(mergeWith))

\* C25: an output step (print, mkdir, write) happens only after the fold has
\* taken every element of the six streams, and what is printed or written is
\* the sorted catalogue of that complete fold; a run that fails or is
\* interrupted before that has made no output step.
C25_NoPartialCatalogue ==
    /\ effects /= << >> =>
          /\ foldComplete
          /\ \A i \in DOMAIN effects :
                effects[i].op \in { "print", "write" } => effects[i].value = sortRoot(acc)
    /\ (pc \in { "failed", "aborted" } /\ ~foldComplete) => effects = << >>

\* a run with an output file was interrupted in the middle of the fold, an
\* element folded and another one still to come
C25_Witness ==
    /\ pc = "aborted"
    /\ env.outputFile /= None
    /\ delivered /= << >>
    /\ acc /= NoCatalogue
    /\ \E k \in StreamNames : streams[k] /= << >>
    /\ effects = << >>

(***************************************************************************)
(* Properties of namespace and target-name resolution.                     *)
(***************************************************************************)
\* the subject type of a getter: the type of its only parameter
subjectOf(g) == TypeTable[TypeTable[g.type].sigs[1].params[1]]

\* the namespace the Namespace Resolver gives the file declaring a type
namespaceOf(ty) == getNamespaceFromSourceFile(namespaceAliases, ty.file[1])

\* the text after the last "/" of a namespace
lastSegment(ns) == SubSeq(ns, lastIndexOf(ns, "/") + 1, Len(ns))

\* C12: a symbol named as the last path segment of its namespace resolves to
\* exactly that namespace, unless the namespace begins with "typescript/".
C12_BaseNameCase ==
    \A i \in DOMAIN getters :
        (/\ lastSegment(namespaceOf(subjectOf(getters[i]))) = subjectOf(getters[i]).name
         /\ ~startsWith(namespaceOf(subjectOf(getters[i])), "typescript/"))
        => getters[i].typeName = namespaceOf(subjectOf(getters[i]))

\* the type Bar declared in Foo/Bar.ts became the subject "p/Foo/Bar"
C12_Witness ==
    /\ pc = "parsed"
    /\ \E i \in DOMAIN getters :
          /\ subjectOf(getters[i]).name = "Bar"
          /\ namespaceOf(subjectOf(getters[i])) = "p/Foo/Bar"
          /\ getters[i].typeName = "p/Foo/Bar"

\* the rule list of the Target-Name Resolver, on a namespace and a name
documentedTarget(ns, name) ==
    IF startsWith(ns, "typescript/") THEN name
    ELSE IF name = lastSegment(ns) THEN ns
    ELSE IF startsWith(name, lastSegment(ns))
         THEN ns \o "." \o SubSeq(name, Len(lastSegment(ns)) + 1, Len(name))
    ELSE IF endsWith(removeAll(ns, "/"), name) THEN ns
    ELSE ns \o "." \o name

\* C13: the typeName of a named type is what the ordered rule list gives for
\* its namespace and its name, the prefix of rules 3 and 5 being that
\* namespace itself, also when the namespace is a key of the alias table.
C13_RuleList ==
    \A i \in DOMAIN getters :
        getters[i].typeName
          = documentedTarget(namespaceOf(subjectOf(getters[i])), subjectOf(getters[i]).name)

\* the six steps of the Namespace Resolver, in their documented order
documentedNamespace(file) ==
    LET located == IF indexOf(file, "/node_modules/") > 0
                   THEN SubSeq(file, lastIndexOf(file, "/node_modules/") + Len("/node_modules/"),
                               Len(file))
                   ELSE packageName \o "/" \o SubSeq(file, Len(baseDir) + 2, Len(file))
        noSuffix == IF endsWith(located, ".d.ts") THEN SubSeq(located, 1, Len(located) - 5)
                    ELSE IF endsWith(located, ".ts") THEN SubSeq(located, 1, Len(located) - 3)
                    ELSE located
        noIndex == IF endsWith(noSuffix, "/index") THEN SubSeq(noSuffix, 1, Len(noSuffix) - 6)
                   ELSE noSuffix
        noDefinition == IF indexOf(noIndex, "/definition/") > 0
                        THEN SubSeq(noIndex, 1, indexOf(noIndex, "/definition/") - 1)
                        ELSE noIndex
        noScope == IF startsWith(noDefinition, "@") THEN SubSeq(noDefinition, 2, Len(noDefinition))
                   ELSE noDefinition
    IN  IF \E j \in DOMAIN namespaceAliases : namespaceAliases[j][1] = noScope
        THEN namespaceAliases[CHOOSE j \in DOMAIN namespaceAliases :
                                  namespaceAliases[j][1] = noScope][2]
        ELSE noScope

\* the steps as the code has them: "/definition/..." and "@" go before the
\* trailing "/index", and the first "/src/", "/dist/", "/_src/" or "/_dist/"
\* becomes "/" before the alias table is applied
amendedNamespace(file) ==
    LET located == IF indexOf(file, "/node_modules/") > 0
                   THEN SubSeq(file, lastIndexOf(file, "/node_modules/") + Len("/node_modules/"),
                               Len(file))
                   ELSE packageName \o "/" \o SubSeq(file, Len(baseDir) + 2, Len(file))
        noSuffix == IF endsWith(located, ".d.ts") THEN SubSeq(located, 1, Len(located) - 5)
                    ELSE IF endsWith(located, ".ts") THEN SubSeq(located, 1, Len(located) - 3)
                    ELSE located
        noDefinition == IF indexOf(noSuffix, "/definition/") > 0
                        THEN SubSeq(noSuffix, 1, indexOf(noSuffix, "/definition/") - 1)
                        ELSE noSuffix
        noScope == IF startsWith(noDefinition, "@") THEN SubSeq(noDefinition, 2, Len(noDefinition))
                   ELSE noDefinition
        noIndex == IF endsWith(noScope, "/index") THEN SubSeq(noScope, 1, Len(noScope) - 6)
                   ELSE noScope
        cuts == { << indexOf(noIndex, m), Len(m) >> :
                    m \in { "/src/", "/dist/", "/_src/", "/_dist/" } }
        found == { c \in cuts : c[1] > 0 }
        first == CHOOSE c \in found : \A d \in found : c[1] <= d[1]
        noSrc == IF found = {} THEN noIndex
                 ELSE SubSeq(noIndex, 1, first[1]) \o
                      SubSeq(noIndex, first[1] + first[2], Len(noIndex))
    IN  IF \E j \in DOMAIN namespaceAliases : namespaceAliases[j][1] = noSrc
        THEN namespaceAliases[CHOOSE j \in DOMAIN namespaceAliases :
                                  namespaceAliases[j][1] = noSrc][2]
        ELSE noSrc

\* C14 as written: the namespace of a declaration's file, and of the file of a
\* type named as its namespace's last segment, is what the six documented
\* steps give, in their order and with nothing else.
C14_SixSteps ==
    pc = "parsed" =>
        /\ \A i \in DOMAIN statics :
               statics[i].name = "sum" =>
                   statics[i].typeName = documentedNamespace(statics[i].file)
        /\ \A i \in DOMAIN getters :
               LET ty == subjectOf(getters[i])
                   ns == documentedNamespace(ty.file[1])
               IN  (lastSegment(ns) = ty.name /\ ~startsWith(ns, "typescript/"))
                   => getters[i].typeName = ns

\* C14 amended: the same with the steps in the order of the code and with the
\* "/src/", "/dist/" step.
C14_StepsOfTheCode ==
    pc = "parsed" =>
        /\ \A i \in DOMAIN statics :
               statics[i].name = "sum" =>
                   statics[i].typeName = amendedNamespace(statics[i].file)
        /\ \A i \in DOMAIN getters :
               LET ty == subjectOf(getters[i])
                   ns == amendedNamespace(ty.file[1])
               IN  (lastSegment(ns) = ty.name /\ ~startsWith(ns, "typescript/"))
                   => getters[i].typeName = ns

\* a declaration of src/src/X.ts and a type of an external _src folder came
\* out without the src segment, the first one through the alias table
C14_Witness ==
    /\ pc = "parsed"
    /\ \E i \in DOMAIN statics :
          /\ statics[i].file = NestedSrcFile
          /\ statics[i].typeName = "q/core/io/Eff"
    /\ \E i \in DOMAIN getters :
          /\ subjectOf(getters[i]).file = Some(DistFile)
          /\ getters[i].typeName = "q/core/io/Eff"

(***************************************************************************)
(* Properties of the unwinding of curried returns.                         *)
(***************************************************************************)
\* the type has no call signatures, or is a named class, interface or alias
stopsUnwinding(t) ==
    \/ callSignatures(t) = << >>
    \/ TypeTable[t].typeDecl
\* the return types along the chain of first call signatures, n calls deep
RECURSIVE chain(_, _)
chain(signature, n) ==
    IF n = 0 \/ stopsUnwinding(signature.ret) THEN << signature.ret >>
    ELSE << signature.ret >> \o chain(callSignatures(signature.ret)[1], n - 1)

\* C23: the unwinding of every call signature comes to an end without an
\* error, self-referential callable types included, and what it returns is the
\* first return type of the chain of first call signatures that has no call
\* signatures or is a named class, interface or type alias.
C23_UnwindingTerminates ==
    /\ pc /= "RangeError"
    /\ pc = "unwound" => IsSome(returned)
    /\ pc = "return" =>
          \E n \in 0..MaxStack :
              /\ returned = Some(chain(frames[1], n)[n + 1])
              /\ stopsUnwinding(chain(frames[1], n)[n + 1])
              /\ \A i \in 1..n : ~stopsUnwinding(chain(frames[1], n)[i])

(***************************************************************************)
(* Properties of the list of exported declarations.                        *)
(***************************************************************************)
\* the (module, name, declaration kind) triples of the given declarations of
\* the exported symbols
triplesOf(symbols, picked(_)) ==
    UNION { { << getModuleFromSourceFile(n.file), e.name, n.kind >> : n \in picked(e) } :
            e \in Range(symbols) }
\* every declaration of a symbol
everyDeclaration(e) == Range(e.declarations)
\* the results of the classification, all of them
classified == staticByName \o getters \o pipeables \o fluents \o callables
oncePerKey(seq) == \A i, j \in DOMAIN seq : key(seq[i]) = key(seq[j]) => i = j

\* C24: the list fed to the classification holds at most one entry for each
\* (module, name, declaration kind), however often a symbol is exported or
\* declared, and it holds an entry for every such triple among the declarations
\* of the exported symbols; so do the pool and the results made from it.
C24_UniqueTriples ==
    /\ oncePerKey(exportedWithDeclarations)
    /\ Keys(exportedWithDeclarations) = triplesOf(exported, everyDeclaration)
    /\ oncePerKey(classified)
    /\ oncePerKey(types)

(***************************************************************************)
(* Properties of the run from the exports to the catalogue.                *)
(***************************************************************************)
\* the type has no symbol, is a type parameter, or has no declaring source file
unresolvable(t) ==
    \/ ~TypeTable[t].sym
    \/ TypeTable[t].typeParam
    \/ TypeTable[t].file = None
allDeclarations == Range(exportedWithDeclarations)
isConstant(a) == a.kind = "const" /\ callSignatures(a.type) = << >>
isCallable(a) == a.kind \in { "const", "function" } /\ callSignatures(a.type) /= << >>
signatureOf(a) == callSignatures(a.type)[1]
\* a getter's subject: the parameter of a signature of one parameter
unresolvableGetterSubject(a) ==
    /\ isCallable(a)
    /\ Len(signatureOf(a).params) = 1
    /\ unresolvable(signatureOf(a).params[1])
\* a pipeable's subject: the parameter of the returned function
unresolvablePipeableSubject(a) ==
    /\ isCallable(a)
    /\ callSignatures(signatureOf(a).ret) /= << >>
    /\ \A i \in DOMAIN callSignatures(signatureOf(a).ret) :
          /\ Len(callSignatures(signatureOf(a).ret)[i].params) = 1
          /\ unresolvable(callSignatures(signatureOf(a).ret)[i].params[1])
\* a static's return type: the final return type of a callable left to the fallback
unresolvableStaticReturn(a) ==
    /\ isCallable(a)
    /\ a.name \notin { d.name : d \in Range(getters) \cup Range(pipeables) \cup Range(fluents) }
    /\ unresolvable(getFinalReturnType(signatureOf(a)))
\* the extensions the catalogue holds for the name
extensionsNamed(n) ==
    UNION { Range(acc[pl[1]][pl[2]].extensions) : pl \in definitionsNamed(n) }
\* the run is on its way to the end of the fold, or there: it has not failed
completes ==
    pc \in { "filter", "staticByName", "getters", "pipeables", "fluents", "statics",
             "parsed", "fold", "folded" }

startsUpperCase(d) == indexOf(Upper, SubSeq(d.definitionName, 1, 1)) > 0

typeGroup(d) == d.definitionKind \in { "type", "interface" }

\* the sorted catalogue as a function from module keys to lists
rootOf(m) == (CHOOSE e \in Range(root) : e[1] = m)[2]

tuplesOf(kind, includeStatic) ==
    somes(mapSeq(streamsOf(env.items)[kind],
                 LAMBDA a : makeDefinitions(kind, a, includeStatic)))

oneAfterTheOther ==
    tuplesOf("fluent", TRUE) \o tuplesOf("getter", TRUE) \o tuplesOf("pipeable", TRUE)
        \o tuplesOf("static", FALSE) \o tuplesOf("type", FALSE)
        \o mergeWithFlat(mergeWith)

\* C30: for a fixed program and configuration the sorted catalogue is the same
\* list of Definitions per module for every interleaving of the deliveries of
\* the six streams: it is the one of the run that takes the streams one after
\* the other, also when two Definitions of a module compare equal in the sort.
C30_SameCatalogueForEveryInterleaving ==
    pc \in { "output", "done" } => root = sortRoot(foldAll(NoCatalogue, oneAfterTheOther))

====
